---- MODULE Spec2Model ----
(***************************************************************************)
(* The ledger shell of apps/src/lib/node/ledger/shell/mod.rs: mempool      *)
(* validation (CheckTx), proposal-time replay protection and the block     *)
(* lifecycle PrepareProposal -> ProcessProposal -> FinalizeBlock -> Commit *)
(* over a committed store with a write log.                                *)
(***************************************************************************)
EXTENDS Integers, Sequences, FiniteSets, TLC

VARIABLES
    storage,               \* wl_storage.storage: the committed store
    write_log,             \* wl_storage.write_log: uncommitted writes of the block in progress
    temp_wl,               \* write log of the TempWlStorage of the proposal in progress
    byzantine_validators,  \* Shell::byzantine_validators
    tx_queue,              \* wl_storage.storage.tx_queue
    eth_queue,             \* EthereumReceiver::queue
    pc,                    \* position in the block lifecycle
    call,                  \* the CheckTx request answered last, with its response
    rp_call,               \* the replay_protection_checks call answered last
    slash_run,             \* the evidence processing of the block finalized last
    mode,                  \* Shell::mode, with the channels to the Ethereum oracle
    oracle_update,         \* the update_eth_oracle call made last
    eth_received,          \* the events the queue was given and still owes, as they first arrived
    peer_receiver,         \* the EthereumReceiver of another validator
    broadcast_sender,      \* the channel to the broadcaster, with what was sent on it
    abci_response          \* the responses of the last Commit and the last Info

vars == <<storage, write_log, temp_wl, byzantine_validators, tx_queue,
          eth_queue, pc, call, rp_call, slash_run, mode, oracle_update,
          eth_received, peer_receiver, broadcast_sender,
          abci_response>>

(***************************************************************************)
(* Bounds of the model                                                     *)
(***************************************************************************)
\* block timestamps range over 0..MaxTime
MaxTime == 2
\* number of blocks finalized and committed in one behaviour
MaxBlocks == 2
\* number of replay_protection_checks calls in one proposal
MaxProposalTxs == 2
\* number of different Ethereum events
MaxEvent == 3
\* number of events one fill_queue call finds in the channel
MaxBatch == 2

(***************************************************************************)
(* ErrorCodes                                                              *)
(***************************************************************************)
Ok == 0
InvalidDecryptedChainId == 1
ExpiredDecryptedTx == 2
WasmRuntimeError == 3
InvalidTx == 4
InvalidSig == 5
InvalidOrder == 6
ExtraTxs == 7
Undecryptable == 8
AllocationError == 9
ReplayTx == 10
InvalidChainId == 11
ExpiredTx == 12
InvalidVoteExtension == 13

\* token::Amount::whole(MIN_FEE), the fee charged when no fee parameter is stored
MinFeeWhole == 100000000

(***************************************************************************)
(* Values                                                                  *)
(***************************************************************************)
\* Option<T> is a set with at most one element: None is {}, Some(x) is {x}
None == {}
Some(x) == {x}

\* the variants of the enum ErrorCodes
ErrorCodes ==
    {"Ok", "InvalidDecryptedChainId", "ExpiredDecryptedTx", "WasmRuntimeError",
     "InvalidTx", "InvalidSig", "InvalidOrder", "ExtraTxs", "Undecryptable",
     "AllocationError", "ReplayTx", "InvalidChainId", "ExpiredTx",
     "InvalidVoteExtension"}

ToU32VariantsReordered(code) ==
    CASE code = "Ok" -> Ok
      [] code = "InvalidDecryptedChainId" -> InvalidDecryptedChainId
      [] code = "ExpiredDecryptedTx" -> ExpiredDecryptedTx
      [] code = "WasmRuntimeError" -> WasmRuntimeError
      [] code = "InvalidTx" -> InvalidTx
      [] code = "InvalidSig" -> InvalidSig
      [] code = "InvalidOrder" -> InvalidOrder
      [] code = "ExtraTxs" -> ExtraTxs
      [] code = "Undecryptable" -> Undecryptable
      [] code = "AllocationError" -> AllocationError
      [] code = "ReplayTx" -> InvalidChainId
      [] code = "InvalidChainId" -> ReplayTx
      [] code = "ExpiredTx" -> ExpiredTx
      [] code = "InvalidVoteExtension" -> InvalidVoteExtension

\* From<ErrorCodes> for u32 (ToPrimitive::to_u32): the discriminant of the
\* variant
ToU32(code) ==
    CASE code = "Ok" -> Ok
      [] code = "InvalidDecryptedChainId" -> InvalidDecryptedChainId
      [] code = "ExpiredDecryptedTx" -> ExpiredDecryptedTx
      [] code = "WasmRuntimeError" -> WasmRuntimeError
      [] code = "InvalidTx" -> InvalidTx
      [] code = "InvalidSig" -> InvalidSig
      [] code = "InvalidOrder" -> InvalidOrder
      [] code = "ExtraTxs" -> ExtraTxs
      [] code = "Undecryptable" -> Undecryptable
      [] code = "AllocationError" -> AllocationError
      [] code = "ReplayTx" -> ReplayTx
      [] code = "InvalidChainId" -> InvalidChainId
      [] code = "ExpiredTx" -> ExpiredTx
      [] code = "InvalidVoteExtension" -> InvalidVoteExtension

\* FromPrimitive::from_u32: the variant with that discriminant, if any
FromU32(n) ==
    CASE n = Ok -> Some("Ok")
      [] n = InvalidDecryptedChainId -> Some("InvalidDecryptedChainId")
      [] n = ExpiredDecryptedTx -> Some("ExpiredDecryptedTx")
      [] n = WasmRuntimeError -> Some("WasmRuntimeError")
      [] n = InvalidTx -> Some("InvalidTx")
      [] n = InvalidSig -> Some("InvalidSig")
      [] n = InvalidOrder -> Some("InvalidOrder")
      [] n = ExtraTxs -> Some("ExtraTxs")
      [] n = Undecryptable -> Some("Undecryptable")
      [] n = AllocationError -> Some("AllocationError")
      [] n = ReplayTx -> Some("ReplayTx")
      [] n = InvalidChainId -> Some("InvalidChainId")
      [] n = ExpiredTx -> Some("ExpiredTx")
      [] n = InvalidVoteExtension -> Some("InvalidVoteExtension")
      [] OTHER -> None

\* u32::to_string: the decimal digits of the number, the highest first
RECURSIVE U32ToString(_)
U32ToString(n) ==
    LET digit == <<"0", "1", "2", "3", "4", "5", "6", "7", "8", "9">>[(n % 10) + 1]
    IN  IF n < 10 THEN <<digit>> ELSE Append(U32ToString(n \div 10), digit)

\* From<ErrorCodes> for String
ErrorCodeToString(code) == U32ToString(ToU32(code))

IsRecoverableThroughInvalidTx(code) ==
    code \in {"Ok", "InvalidDecryptedChainId", "ExpiredDecryptedTx",
              "WasmRuntimeError", "InvalidTx"}

\* ErrorCodes::is_recoverable
IsRecoverable(code) ==
    code \in {"Ok", "InvalidDecryptedChainId", "ExpiredDecryptedTx",
              "WasmRuntimeError"}

\* the shell's chain id and a foreign one
ShellChainId == "namada-chain"
ChainIds == {ShellChainId, "wrong-chain"}

Times == 0..MaxTime
\* the expiration a transaction header may carry
Expirations == {None, Some(1)}

TxTypes == {"Wrapper", "Raw", "Decrypted", "Protocol"}
ProtocolTxTypes == {"EthEventsVext", "BridgePoolVext", "ValSetUpdateVext", "DKG"}

\* the wrapper's public key: an implicit account's key or the MASP key
MaspTxKey == "masp_tx_key"
PublicKeys == {"user_key", MaspTxKey}
MaspAddress == "masp"
\* Address::from(&pk): the implicit address of a public key
ImplicitAddress(pk) == IF pk = MaspTxKey THEN "masp_key_owner" ELSE "user"
Addresses == {"user", "masp_key_owner", MaspAddress}

\* token amounts that occur
Amounts == {0, 1, MinFeeWhole}
\* the fee amounts a wrapper header may carry
FeeAmounts == {0, 100}

(***************************************************************************)
(* Transactions                                                            *)
(***************************************************************************)
\* WrapperTx: the data of TxType::Wrapper
WrapperTxs == [fee : FeeAmounts, pk : PublicKeys, pow_solution : {None, Some(0)}]

\* TxType: the tag with the data of the Wrapper and Protocol variants
WrapperType(w) == [tag |-> "Wrapper", wrapper |-> Some(w), protocol |-> None]
ProtocolType(p) == [tag |-> "Protocol", wrapper |-> None, protocol |-> Some(p)]
RawType == [tag |-> "Raw", wrapper |-> None, protocol |-> None]
DecryptedType == [tag |-> "Decrypted", wrapper |-> None, protocol |-> None]

AllTxTypes ==
    {WrapperType(w) : w \in WrapperTxs}
        \cup {ProtocolType(p) : p \in ProtocolTxTypes}
        \cup {RawType, DecryptedType}

\* Header: chain id, expiration, hash of the code/data sections, tx type
Headers ==
    [chain_id : ChainIds, expiration : Expirations, code_hash : {1},
     tx_type : AllTxTypes]

\* Tx::header_hash: the hash of the header, one value per header content
\* (the signature sections are not part of the header)
HeaderHash(header) ==
    <<header.chain_id, header.expiration, header.code_hash,
      header.tx_type.tag, header.tx_type.wrapper, header.tx_type.protocol>>

\* Tx::update_header: the transaction with its tx type replaced
UpdateHeader(tx, tx_type) ==
    [tx EXCEPT !.header = [tx.header EXCEPT !.tx_type = tx_type]]

\* the hash of the inner transaction of a wrapper: the header hash once the
\* header is made a Raw one
InnerTxHash(tx) == HeaderHash(UpdateHeader(tx, RawType).header)

\* the hash of the wrapper transaction: the header hash of the bytes as sent
WrapperTxHash(tx) == HeaderHash(tx.header)

\* the headers a signature section may have been made over: the header itself,
\* or the header as it was before its fee amount was changed
SignedHeaders(header) ==
    {header} \cup
        {[header EXCEPT !.tx_type = WrapperType([w EXCEPT !.fee = f])] :
            w \in header.tx_type.wrapper, f \in FeeAmounts}

\* the heights and epochs a vote extension may reference
ExtHeights == 0..MaxBlocks

\* the validators a vote extension may name: the bonded validator of the
\* chain, an address without a bond
VextValidators == {"validator_address", "stranger_address"}
\* the keys a vote extension may be signed with: the protocol key or the
\* Ethereum bridge key of the validator it names, or another key
VextKeys == {"protocol_key", "eth_bridge_key", "other_key"}

\* the key the vote extension of a protocol transaction is verified with
VextKeyOf(protocol) ==
    IF protocol = Some("BridgePoolVext") THEN "eth_bridge_key" ELSE "protocol_key"

\* the vote extension in the data of a protocol transaction, made by the
\* bonded validator with the key of the extension's kind
VextsOf(header) ==
    IF header.tx_type.protocol \subseteq {"DKG"}
    THEN {None}
    ELSE {Some([block_height |-> h, validator_addr |-> "validator_address",
                sig |-> VextKeyOf(header.tx_type.protocol)]) : h \in ExtHeights}

\* the vote extensions of every signer, key and height
AllVexts ==
    [block_height : ExtHeights, validator_addr : VextValidators, sig : VextKeys]

\* a byte string that is no encoding of a transaction
Garbage ==
    [wf |-> FALSE,
     header |-> [chain_id |-> ShellChainId, expiration |-> None, code_hash |-> 1,
                 tx_type |-> RawType],
     sig |-> None, vext |-> None]

\* the byte strings sent to CheckTx: the encodings of the transactions (a
\* header, an optional signature section over a header hash, the vote
\* extension of a protocol transaction), and garbage
TxBytes ==
    {Garbage} \cup
    UNION {
        {[wf |-> TRUE, header |-> hd, sig |-> sg, vext |-> vx] :
            sg \in {None} \cup {Some(HeaderHash(h)) : h \in SignedHeaders(hd)},
            vx \in VextsOf(hd)} :
        hd \in Headers}

MempoolTxTypes == {"NewTransaction", "RecheckTransaction"}

\* Tx::try_from(tx_bytes): the transaction the bytes encode, if any
TxTryFrom(tx_bytes) ==
    IF tx_bytes.wf
    THEN Some([header |-> tx_bytes.header, sig |-> tx_bytes.sig,
               vext |-> tx_bytes.vext])
    ELSE None

\* Tx::validate_header: a wrapper or protocol transaction needs a signature
\* section over its current header hash; Raw and Decrypted ones pass as they are
ValidateHeader(tx) ==
    IF tx.header.tx_type.tag \in {"Wrapper", "Protocol"}
    THEN tx.sig = Some(HeaderHash(tx.header))
    ELSE TRUE

(***************************************************************************)
(* Storage: the committed store and the write log over it                  *)
(***************************************************************************)
\* the replay-protection hashes a transaction of a block leaves in storage
TxHashes(tx) == {InnerTxHash(tx), WrapperTxHash(tx)}

\* an empty write log
EmptyWriteLog ==
    [hashes |-> {}, balance |-> [a \in Addresses |-> None],
     wrapper_tx_fees |-> None, pow_used |-> {}, eth_bridge_status |-> None]

StorageHasHashInWriteLog(self, h) == h \in self.write_log.hashes

\* Storage::has_key on a replay-protection key: the committed store alone
StorageHasHash(self, h) == h \in self.storage.hashes

\* TempWlStorage::has_key on a replay-protection key: the temporary write log,
\* then the committed store
TempHasHash(self, overlay, h) == h \in overlay \/ h \in self.storage.hashes

\* a balance read through wl_storage: the write log, then the store
WlReadBalance(self, owner) ==
    IF self.write_log.balance[owner] # None
    THEN CHOOSE b \in self.write_log.balance[owner] : TRUE
    ELSE self.storage.balance[owner]

\* read_wrapper_tx_fees_parameter(&self.wl_storage): the write log, then the store
WlReadWrapperTxFees(self) ==
    IF self.write_log.wrapper_tx_fees # None
    THEN self.write_log.wrapper_tx_fees
    ELSE self.storage.wrapper_tx_fees

\* the PoW challenges of the faucet already used, read through wl_storage
WlPowUsed(self) == self.write_log.pow_used \cup self.storage.pow_used

\* wl_storage.has_key / read of eth_bridge::storage::active_key: the write
\* log, then the store
WlReadBridgeStatus(self) ==
    IF self.write_log.eth_bridge_status # None
    THEN self.write_log.eth_bridge_status
    ELSE self.storage.eth_bridge_status

\* ethbridge_queries().is_bridge_active() on wl_storage: the status read is
\* Enabled
IsBridgeActive(self) == WlReadBridgeStatus(self) = Some("Enabled")

\* WlStorage::commit_block: the write log is applied to the store and emptied;
\* the state written to the DB carries the ethereum_height of this moment
CommitBlockStorage(self) ==
    [self.storage EXCEPT
        !.db_ethereum_height = self.storage.ethereum_height,
        !.hashes = @ \cup self.write_log.hashes,
        !.balance = [a \in Addresses |-> WlReadBalance(self, a)],
        !.wrapper_tx_fees = WlReadWrapperTxFees(self),
        !.pow_used = WlPowUsed(self),
        !.eth_bridge_status = WlReadBridgeStatus(self),
        !.last_block = self.storage.block,
        !.last_epoch = self.storage.block.epoch]

(***************************************************************************)
(* Shell::mempool_validate                                                 *)
(***************************************************************************)
VALID_MSG == "Mempool validation passed"
INVALID_MSG == "Mempool validation failed"

\* i64::MAX and the default priority 0, as decimal text
I64Max == "9223372036854775807"
DefaultPriority == "0"

\* a log line: the fixed text of the message (prefix, format string) and the
\* values formatted into it
Log(prefix, text) ==
    [prefix |-> prefix, text |-> text, hash |-> None, chain_ids |-> <<>>,
     times |-> <<>>]
LogHash(prefix, text, h) == [Log(prefix, text) EXCEPT !.hash = Some(h)]

\* response::CheckTx::default()
DefaultResponse ==
    [code |-> Ok, log |-> Log("", ""), priority |-> DefaultPriority]

Reject(code, log) == [DefaultResponse EXCEPT !.code = code, !.log = log]

\* Shell::get_block_timestamp(None): the time of the last committed block
GetBlockTimestamp(self) == self.storage.last_block.time

\* mutant: the chain id is never compared
WrongChainIdSkipped(tx) == FALSE

\* the chain id check
WrongChainId(tx) == tx.header.chain_id # ShellChainId

\* mutant: the comparison of the expiration check is reversed
TxExpiredReversed(self, tx) ==
    \E exp \in tx.header.expiration : GetBlockTimestamp(self) < exp

\* mutant: an expiration equal to the last block time counts as passed
TxExpiredNotStrict(self, tx) ==
    \E exp \in tx.header.expiration : GetBlockTimestamp(self) >= exp

\* the expiration check: an expiration strictly before the last block time
TxExpired(self, tx) ==
    \E exp \in tx.header.expiration : GetBlockTimestamp(self) > exp

\* Shell::get_balance(token, owner)
GetBalance(self, owner) == self.storage.balance[owner]

\* Shell::has_valid_pow_solution: a solution, a faucet account and a
\* challenge the faucet has not yet seen used by the source
HasValidPowSolution(self, wrapper) ==
    \E solution \in wrapper.pow_solution :
        \E faucet_address \in self.storage.faucet_account :
            ImplicitAddress(wrapper.pk) \notin WlPowUsed(self)

\* Shell::get_wrapper_tx_fees
GetWrapperTxFees(self) ==
    IF WlReadWrapperTxFees(self) = None
    THEN MinFeeWhole
    ELSE CHOOSE fees \in WlReadWrapperTxFees(self) : TRUE

FeePayerOwnerOfKey(wrapper) == ImplicitAddress(wrapper.pk)

\* the payer of the wrapper's fee
FeePayer(wrapper) ==
    IF wrapper.pk # MaspTxKey THEN ImplicitAddress(wrapper.pk) ELSE MaspAddress

\* the validator a vote extension names has a bond on the chain
IsBondedValidator(self, validator_addr) ==
    \E h \in DOMAIN self.storage.validator_by_raw_hash :
        self.storage.validator_by_raw_hash[h] = validator_addr

\* validate_eth_events_vext / validate_bp_roots_vext at the last block
\* height: the bridge is active, the extension references that height, its
\* signer is a bonded validator and its signature verifies with the
\* signer's key for the kind of extension
ValidateVextAtHeight(self, ext, last_height, key) ==
    /\ self.storage.eth_bridge_status = Some("Enabled")
    /\ ext.block_height = last_height
    /\ IsBondedValidator(self, ext.validator_addr)
    /\ ext.sig = key

\* validate_valset_upd_vext at the last epoch: the extension references that
\* epoch, its signer is a bonded validator and its signature verifies with
\* the signer's protocol key
ValidateValsetUpdVext(self, ext, last_epoch) ==
    /\ ext.block_height = last_epoch
    /\ IsBondedValidator(self, ext.validator_addr)
    /\ ext.sig = "protocol_key"

EthEventsVextArmCurrentHeight(self, ext) ==
    IF ~ValidateVextAtHeight(self, ext, self.storage.block.height,
                             "protocol_key")
    THEN Reject(InvalidVoteExtension,
                Log(INVALID_MSG, "Invalid Ethereum events vote extension"))
    ELSE [DefaultResponse EXCEPT !.log = Log(VALID_MSG, "")]

\* ProtocolTxType::EthEventsVext: the extension is validated at the height
\* of the last committed block
EthEventsVextArm(self, ext) ==
    IF ~ValidateVextAtHeight(self, ext, self.storage.last_block.height,
                             "protocol_key")
    THEN Reject(InvalidVoteExtension,
                Log(INVALID_MSG, "Invalid Ethereum events vote extension"))
    ELSE [DefaultResponse EXCEPT !.log = Log(VALID_MSG, "")]

BridgePoolVextArmLogsOnly(self, ext) ==
    IF ~ValidateVextAtHeight(self, ext, self.storage.last_block.height,
                             "eth_bridge_key")
    THEN [DefaultResponse EXCEPT
            !.log = Log(INVALID_MSG, "Invalid Brige pool roots vote extension")]
    ELSE [DefaultResponse EXCEPT !.log = Log(VALID_MSG, "")]

\* ProtocolTxType::BridgePoolVext: the extension is validated at the height
\* of the last committed block
BridgePoolVextArm(self, ext) ==
    IF ~ValidateVextAtHeight(self, ext, self.storage.last_block.height,
                             "eth_bridge_key")
    THEN Reject(InvalidVoteExtension,
                Log(INVALID_MSG, "Invalid Brige pool roots vote extension"))
    ELSE [DefaultResponse EXCEPT !.log = Log(VALID_MSG, "")]

ValSetUpdateVextArmCurrentEpoch(self, ext) ==
    IF ~ValidateValsetUpdVext(self, ext, self.storage.block.epoch)
    THEN Reject(InvalidVoteExtension,
                Log(INVALID_MSG, "Invalid validator set update vote extension"))
    ELSE [DefaultResponse EXCEPT !.log = Log(VALID_MSG, ""),
                                 !.priority = I64Max]

\* ProtocolTxType::ValSetUpdateVext: the extension is validated at the last
\* committed epoch; one that passes is given the highest priority
ValSetUpdateVextArm(self, ext) ==
    IF ~ValidateValsetUpdVext(self, ext, self.storage.last_epoch)
    THEN Reject(InvalidVoteExtension,
                Log(INVALID_MSG, "Invalid validator set update vote extension"))
    ELSE [DefaultResponse EXCEPT !.log = Log(VALID_MSG, ""),
                                 !.priority = I64Max]

ProtocolArmEveryVextFirst(self, tx, protocol_tx) ==
    LET ext == CHOOSE e \in tx.vext : TRUE
        first(response) ==
            [response EXCEPT !.priority =
                IF response.code = Ok THEN I64Max ELSE DefaultPriority]
    IN
    CASE protocol_tx = "EthEventsVext" -> first(EthEventsVextArm(self, ext))
      [] protocol_tx = "BridgePoolVext" -> first(BridgePoolVextArm(self, ext))
      [] protocol_tx = "ValSetUpdateVext" -> ValSetUpdateVextArm(self, ext)
      [] OTHER ->
            Reject(InvalidTx,
                   Log(INVALID_MSG, "The given protocol tx cannot be added to the mempool"))

\* the Protocol arm of the dispatch on the transaction kind
ProtocolArm(self, tx, protocol_tx) ==
    LET ext == CHOOSE e \in tx.vext : TRUE IN
    CASE protocol_tx = "EthEventsVext" -> EthEventsVextArm(self, ext)
      [] protocol_tx = "BridgePoolVext" -> BridgePoolVextArm(self, ext)
      [] protocol_tx = "ValSetUpdateVext" -> ValSetUpdateVextArm(self, ext)
      [] OTHER ->
            Reject(InvalidTx,
                   Log(INVALID_MSG, "The given protocol tx cannot be added to the mempool"))

\* mutant: the wrapper hash is never looked up
WrapperArmInnerOnly(self, tx, tx_bytes, wrapper) ==
    IF StorageHasHash(self, InnerTxHash(tx))
    THEN Reject(ReplayTx,
                LogHash(INVALID_MSG,
                        "Inner transaction hash {} already in storage, replay attempt",
                        InnerTxHash(tx)))
    ELSE IF ~HasValidPowSolution(self, wrapper)
            /\ GetWrapperTxFees(self) > GetBalance(self, FeePayer(wrapper))
    THEN Reject(InvalidTx,
                Log(INVALID_MSG,
                    "The given address does not have a sufficient balance to pay fee"))
    ELSE DefaultResponse

\* mutant: the wrapper hash is looked up before the inner hash
WrapperArmWrapperFirst(self, tx, tx_bytes, wrapper) ==
    IF StorageHasHash(self, WrapperTxHash(CHOOSE t \in TxTryFrom(tx_bytes) : TRUE))
    THEN Reject(ReplayTx,
                LogHash(INVALID_MSG,
                        "Wrapper transaction hash {} already in storage, replay attempt",
                        WrapperTxHash(CHOOSE t \in TxTryFrom(tx_bytes) : TRUE)))
    ELSE IF StorageHasHash(self, InnerTxHash(tx))
    THEN Reject(ReplayTx,
                LogHash(INVALID_MSG,
                        "Inner transaction hash {} already in storage, replay attempt",
                        InnerTxHash(tx)))
    ELSE IF ~HasValidPowSolution(self, wrapper)
            /\ GetWrapperTxFees(self) > GetBalance(self, FeePayer(wrapper))
    THEN Reject(InvalidTx,
                Log(INVALID_MSG,
                    "The given address does not have a sufficient balance to pay fee"))
    ELSE DefaultResponse

\* the Wrapper arm: the replay protection check on the inner hash, then on the
\* wrapper hash, both against committed storage, then the fee check
WrapperArm(self, tx, tx_bytes, wrapper) ==
    LET inner_tx_hash == InnerTxHash(tx)
        wrapper_hash == WrapperTxHash(CHOOSE t \in TxTryFrom(tx_bytes) : TRUE)
        balance == GetBalance(self, FeePayer(wrapper))
        has_valid_pow == HasValidPowSolution(self, wrapper)
    IN  IF StorageHasHash(self, inner_tx_hash)
        THEN Reject(ReplayTx,
                    LogHash(INVALID_MSG,
                            "Inner transaction hash {} already in storage, replay attempt",
                            inner_tx_hash))
        ELSE IF StorageHasHash(self, wrapper_hash)
        THEN Reject(ReplayTx,
                    LogHash(INVALID_MSG,
                            "Wrapper transaction hash {} already in storage, replay attempt",
                            wrapper_hash))
        ELSE IF ~has_valid_pow /\ GetWrapperTxFees(self) > balance
        THEN Reject(InvalidTx,
                    Log(INVALID_MSG,
                        "The given address does not have a sufficient balance to pay fee"))
        ELSE DefaultResponse

\* mutant: the Raw and Decrypted arms leave the response at its default
DispatchTxTypeAdmitsRaw(self, tx, tx_bytes) ==
    LET tx_type == tx.header.tx_type IN
    CASE tx_type.tag = "Protocol" ->
            ProtocolArm(self, tx, CHOOSE p \in tx_type.protocol : TRUE)
      [] tx_type.tag = "Wrapper" ->
            WrapperArm(self, tx, tx_bytes, CHOOSE w \in tx_type.wrapper : TRUE)
      [] OTHER -> DefaultResponse

\* the dispatch on the transaction kind
DispatchTxType(self, tx, tx_bytes) ==
    LET tx_type == tx.header.tx_type IN
    CASE tx_type.tag = "Protocol" ->
            ProtocolArm(self, tx, CHOOSE p \in tx_type.protocol : TRUE)
      [] tx_type.tag = "Wrapper" ->
            WrapperArm(self, tx, tx_bytes, CHOOSE w \in tx_type.wrapper : TRUE)
      [] tx_type.tag = "Raw" ->
            Reject(InvalidTx,
                   Log(INVALID_MSG, "Raw transactions cannot be accepted into the mempool"))
      [] tx_type.tag = "Decrypted" ->
            Reject(InvalidTx,
                   Log(INVALID_MSG, "Decrypted txs cannot be sent by clients"))

\* the last statement: an accepted transaction gets the log VALID_MSG
FinishResponse(response) ==
    IF response.code = Ok
    THEN [response EXCEPT !.log = Log(VALID_MSG, "")]
    ELSE response

\* mutant: the expiration is checked before the chain id
ValidateTxExpirationFirst(self, tx, tx_bytes) ==
    IF TxExpired(self, tx)
    THEN Reject(ExpiredTx,
                [Log(INVALID_MSG, "Tx expired at {}, last committed block time: {}")
                    EXCEPT !.times = <<CHOOSE exp \in tx.header.expiration : TRUE,
                                       GetBlockTimestamp(self)>>])
    ELSE IF WrongChainId(tx)
    THEN Reject(InvalidChainId,
                [Log(INVALID_MSG, "Tx carries a wrong chain id: expected {}, found {}")
                    EXCEPT !.chain_ids = <<ShellChainId, tx.header.chain_id>>])
    ELSE IF ~ValidateHeader(tx)
    THEN Reject(InvalidSig, Log(INVALID_MSG, "signature verification failed"))
    ELSE FinishResponse(DispatchTxType(self, tx, tx_bytes))

\* mutant: the result of validate_header is ignored
ValidateTxNoSignatureCheck(self, tx, tx_bytes) ==
    IF WrongChainId(tx)
    THEN Reject(InvalidChainId,
                [Log(INVALID_MSG, "Tx carries a wrong chain id: expected {}, found {}")
                    EXCEPT !.chain_ids = <<ShellChainId, tx.header.chain_id>>])
    ELSE IF TxExpired(self, tx)
    THEN Reject(ExpiredTx,
                [Log(INVALID_MSG, "Tx expired at {}, last committed block time: {}")
                    EXCEPT !.times = <<CHOOSE exp \in tx.header.expiration : TRUE,
                                       GetBlockTimestamp(self)>>])
    ELSE FinishResponse(DispatchTxType(self, tx, tx_bytes))

\* the checks after deserialization, in the order of the code, each returning
\* at once when it fails
ValidateTx(self, tx, tx_bytes) ==
    IF WrongChainId(tx)
    THEN Reject(InvalidChainId,
                [Log(INVALID_MSG, "Tx carries a wrong chain id: expected {}, found {}")
                    EXCEPT !.chain_ids = <<ShellChainId, tx.header.chain_id>>])
    ELSE IF TxExpired(self, tx)
    THEN Reject(ExpiredTx,
                [Log(INVALID_MSG, "Tx expired at {}, last committed block time: {}")
                    EXCEPT !.times = <<CHOOSE exp \in tx.header.expiration : TRUE,
                                       GetBlockTimestamp(self)>>])
    ELSE IF ~ValidateHeader(tx)
    THEN Reject(InvalidSig, Log(INVALID_MSG, "signature verification failed"))
    ELSE FinishResponse(DispatchTxType(self, tx, tx_bytes))

MempoolValidateTrustsRecheck(self, tx_bytes, type) ==
    IF type = "RecheckTransaction"
    THEN FinishResponse(DefaultResponse)
    ELSE IF TxTryFrom(tx_bytes) = None
    THEN Reject(InvalidTx, Log(INVALID_MSG, "Error decoding a transaction from bytes"))
    ELSE ValidateTx(self, CHOOSE tx \in TxTryFrom(tx_bytes) : TRUE, tx_bytes)

\* Shell::mempool_validate(&self, tx_bytes, _type): the response
MempoolValidate(self, tx_bytes, type) ==
    IF TxTryFrom(tx_bytes) = None
    THEN Reject(InvalidTx, Log(INVALID_MSG, "Error decoding a transaction from bytes"))
    ELSE ValidateTx(self, CHOOSE tx \in TxTryFrom(tx_bytes) : TRUE, tx_bytes)

\* mutant: the call takes the pending evidence out of the shell
MempoolValidateShellTakesEvidence(self) ==
    [self EXCEPT !.byzantine_validators = <<>>]

\* mempool_validate takes &self: the shell after the call is the shell before it
MempoolValidateShell(self) == self

\* mutant: the wrapper hash is looked up, and reported, before the inner hash
ReplayProtectionChecksWrapperFirst(self, wrapper, tx_bytes, overlay) ==
    LET inner_tx_hash == InnerTxHash(wrapper)
        wrapper_hash == WrapperTxHash(CHOOSE t \in TxTryFrom(tx_bytes) : TRUE)
    IN  IF TempHasHash(self, overlay, wrapper_hash)
        THEN [ok |-> FALSE,
              err |-> LogHash("Transaction replay attempt",
                              "Wrapper transaction hash {} already in storage",
                              wrapper_hash),
              overlay |-> overlay]
        ELSE IF TempHasHash(self, overlay, inner_tx_hash)
        THEN [ok |-> FALSE,
              err |-> LogHash("Transaction replay attempt",
                              "Inner transaction hash {} already in storage",
                              inner_tx_hash),
              overlay |-> overlay \cup {wrapper_hash}]
        ELSE [ok |-> TRUE, err |-> Log("", ""),
              overlay |-> overlay \cup {wrapper_hash, inner_tx_hash}]

\* mutant: the hashes are looked up in the committed storage only
ReplayProtectionChecksStorageOnly(self, wrapper, tx_bytes, overlay) ==
    LET inner_tx_hash == InnerTxHash(wrapper)
        wrapper_hash == WrapperTxHash(CHOOSE t \in TxTryFrom(tx_bytes) : TRUE)
    IN  IF StorageHasHash(self, inner_tx_hash)
        THEN [ok |-> FALSE,
              err |-> LogHash("Transaction replay attempt",
                              "Inner transaction hash {} already in storage",
                              inner_tx_hash),
              overlay |-> overlay]
        ELSE IF StorageHasHash(self, wrapper_hash)
        THEN [ok |-> FALSE,
              err |-> LogHash("Transaction replay attempt",
                              "Wrapper transaction hash {} already in storage",
                              wrapper_hash),
              overlay |-> overlay \cup {inner_tx_hash}]
        ELSE [ok |-> TRUE, err |-> Log("", ""),
              overlay |-> overlay \cup {inner_tx_hash, wrapper_hash}]

(***************************************************************************)
(* Shell::replay_protection_checks                                         *)
(***************************************************************************)
\* the result of replay_protection_checks(wrapper, tx_bytes, temp_wl_storage)
\* on the temporary write log `overlay`: the error, if any, and the write log
\* it leaves
ReplayProtectionChecks(self, wrapper, tx_bytes, overlay) ==
    LET inner_tx_hash == InnerTxHash(wrapper)
        has_inner == TempHasHash(self, overlay, inner_tx_hash)
        \* the inner hash is written as soon as it is found absent
        overlay1 == overlay \cup {inner_tx_hash}
        wrapper_hash == WrapperTxHash(CHOOSE t \in TxTryFrom(tx_bytes) : TRUE)
        has_wrapper == TempHasHash(self, overlay1, wrapper_hash)
    IN  IF has_inner
        THEN [ok |-> FALSE,
              err |-> LogHash("Transaction replay attempt",
                              "Inner transaction hash {} already in storage",
                              inner_tx_hash),
              overlay |-> overlay]
        ELSE IF has_wrapper
        THEN [ok |-> FALSE,
              err |-> LogHash("Transaction replay attempt",
                              "Wrapper transaction hash {} already in storage",
                              wrapper_hash),
              overlay |-> overlay1]
        ELSE [ok |-> TRUE, err |-> Log("", ""),
              overlay |-> overlay1 \cup {wrapper_hash}]

\* mutant: the inner hash goes to the shell's own write log
ReplayProtectionChecksShellWritesLog(self, wrapper, tx_bytes) ==
    [self EXCEPT !.write_log.hashes = @ \cup {InnerTxHash(wrapper)}]

\* replay_protection_checks takes &self and writes through temp_wl_storage
\* only: the shell after the call is the shell before it
ReplayProtectionChecksShell(self, wrapper, tx_bytes) == self

(***************************************************************************)
(* Shell::record_slashes_from_evidence and Shell::process_slashes          *)
(***************************************************************************)
\* u64::try_from(evidence.height): no height for a negative number
HeightTryFrom(height) == IF height >= 0 THEN Some(height) ELSE None

\* pred_epochs.get_epoch(BlockHeight(h)): the epoch of a height up to the
\* block in progress; pred_epochs[h + 1] is the epoch of height h
GetEpoch(self, evidence_height) ==
    IF evidence_height + 1 <= Len(self.storage.pred_epochs)
    THEN Some(self.storage.pred_epochs[evidence_height + 1])
    ELSE None

\* EvidenceType::from_i32
EvidenceTypeFromI32(type) ==
    CASE type = 0 -> Some("Unknown")
      [] type = 1 -> Some("DuplicateVote")
      [] type = 2 -> Some("LightClientAttack")
      [] OTHER -> None

\* PosParams::slash_processing_epoch_offset
SlashProcessingEpochOffset(pos_params) ==
    pos_params.unbonding_len + 1 + pos_params.cubic_slashing_window_length

\* Epoch - u64 on unsigned numbers: no result when the subtrahend is larger
EpochSub(epoch, n) == IF epoch >= n THEN Some(epoch - n) ELSE None

\* tm_raw_hash_to_string: the hex text of the raw address bytes
TmRawHashToString(address) == <<"hex", address>>

\* find_validator_by_raw_hash(&self.wl_storage, raw_hash)
FindValidatorByRawHash(self, validator_raw_hash) ==
    IF validator_raw_hash \in DOMAIN self.storage.validator_by_raw_hash
    THEN Some(self.storage.validator_by_raw_hash[validator_raw_hash])
    ELSE None

\* mutant: an item that is not slashed ends the loop
SkipEndsLoop(evidence, result) ==
    [evidence |-> evidence, result |-> result, panic |-> TRUE, slash |-> None]

\* what the loop body does with an evidence item that is not slashed: the
\* reason is logged and the loop continues
Skip(evidence, result) ==
    [evidence |-> evidence, result |-> result, panic |-> FALSE, slash |-> None]
\* the loop body ends in a panic
Abort(evidence, result) ==
    [evidence |-> evidence, result |-> result, panic |-> TRUE, slash |-> None]

\* evidence_epoch + slash_processing_epoch_offset - cubic_slashing_window_length
SlashingWindowStart(pos_params, evidence_epoch) ==
    EpochSub(evidence_epoch + SlashProcessingEpochOffset(pos_params),
             pos_params.cubic_slashing_window_length)

\* mutant: evidence is outdated only strictly before the current epoch
IsOutdatedStrictly(window_start, current_epoch) == window_start < current_epoch

\* the test for evidence that should have been processed already
IsOutdated(window_start, current_epoch) == window_start <= current_epoch

\* mutant: the slash is recorded for the current epoch
SlashForCurrentEpoch(validator, slash_type, evidence_epoch, evidence_height, current_epoch) ==
    [validator |-> validator, slash_type |-> slash_type,
     evidence_epoch |-> current_epoch, evidence_height |-> evidence_height,
     current_epoch |-> current_epoch]

\* the call slash(&mut self.wl_storage, &pos_params, current_epoch,
\* evidence_epoch, evidence_height, slash_type, &validator)
Slash(validator, slash_type, evidence_epoch, evidence_height, current_epoch) ==
    [validator |-> validator, slash_type |-> slash_type,
     evidence_epoch |-> evidence_epoch, evidence_height |-> evidence_height,
     current_epoch |-> current_epoch]

\* the body of the loop over the evidence: each check that fails logs and
\* continues with the next item; an item that passes them all is slashed
ProcessEvidence(self, pos_params, current_epoch, evidence, faults) ==
    LET height == HeightTryFrom(evidence.height)
        evidence_height == CHOOSE h \in height : TRUE
        epoch == GetEpoch(self, evidence_height)
        evidence_epoch == CHOOSE e \in epoch : TRUE
        window_start == SlashingWindowStart(pos_params, evidence_epoch)
        type == EvidenceTypeFromI32(evidence.type)
        validator_raw_hash ==
            TmRawHashToString(CHOOSE v \in evidence.validator : TRUE)
        found == FindValidatorByRawHash(self, validator_raw_hash)
        slash_call ==
            Slash(CHOOSE v \in found : TRUE, CHOOSE t \in type : TRUE,
                  evidence_epoch, evidence_height, current_epoch)
    IN  IF height = None
        THEN Skip(evidence, "Unexpected evidence block height")
        ELSE IF epoch = None
        THEN Skip(evidence, "Couldn't find epoch for evidence block height")
        ELSE IF window_start = None
        THEN Abort(evidence, "attempt to subtract with overflow")
        ELSE IF IsOutdated(CHOOSE e \in window_start : TRUE, current_epoch)
        THEN Skip(evidence, "Skipping outdated evidence from epoch")
        ELSE IF type = Some("Unknown")
        THEN Skip(evidence, "Unknown evidence")
        ELSE IF type = None
        THEN Skip(evidence, "Unexpected evidence type")
        ELSE IF evidence.validator = None
        THEN Skip(evidence, "Evidence without a validator")
        ELSE IF "find_validator" \in faults
        THEN Abort(evidence, "Must be able to read storage")
        ELSE IF found = None
        THEN Skip(evidence, "Cannot find validator's address from raw hash")
        ELSE IF "slash" \in faults
        THEN [evidence |-> evidence, result |-> "Error in slashing",
              panic |-> FALSE, slash |-> Some(slash_call)]
        ELSE [evidence |-> evidence, result |-> "Slashing", panic |-> FALSE,
              slash |-> Some(slash_call)]

\* the loop over the evidence taken from the shell, up to a panic
RECURSIVE SlashLoop(_, _, _, _, _)
SlashLoop(self, pos_params, current_epoch, evidences, faults) ==
    IF evidences = <<>>
    THEN <<>>
    ELSE LET outcome == ProcessEvidence(self, pos_params, current_epoch,
                                        Head(evidences), faults)
         IN  IF outcome.panic
             THEN <<outcome>>
             ELSE <<outcome>> \o SlashLoop(self, pos_params, current_epoch,
                                           Tail(evidences), faults)

\* the slash calls made for the items of a run, in order
RECURSIVE SlashesOf(_)
SlashesOf(outcomes) ==
    IF outcomes = <<>>
    THEN <<>>
    ELSE (IF Head(outcomes).slash = None THEN <<>>
          ELSE <<CHOOSE sl \in Head(outcomes).slash : TRUE>>)
         \o SlashesOf(Tail(outcomes))

\* a run of record_slashes_from_evidence that has not looked at any evidence
NoSlashRun(taken, panic) ==
    [evidence |-> taken, outcomes |-> <<>>, panic |-> panic,
     byzantine_validators |-> <<>>]

\* mutant: the evidence is read where it is, not taken out of the shell
RecordSlashesFromEvidenceKeepsList(self, faults) ==
    [evidence |-> self.byzantine_validators,
     outcomes |-> SlashLoop(self, self.storage.pos_params,
                            self.storage.block.epoch, self.byzantine_validators,
                            faults),
     panic |-> FALSE,
     byzantine_validators |-> self.byzantine_validators]

\* Shell::record_slashes_from_evidence: a non-empty evidence list is taken out
\* of the shell, the PoS parameters are read (unwrap), and the items are
\* processed in order
RecordSlashesFromEvidence(self, faults) ==
    IF self.byzantine_validators = <<>>
    THEN NoSlashRun(<<>>, FALSE)
    ELSE IF "pos_params" \in faults
    THEN NoSlashRun(self.byzantine_validators, TRUE)
    ELSE LET outcomes == SlashLoop(self, self.storage.pos_params,
                                   self.storage.block.epoch,
                                   self.byzantine_validators, faults)
         IN  [evidence |-> self.byzantine_validators,
              outcomes |-> outcomes,
              panic |-> outcomes[Len(outcomes)].panic,
              byzantine_validators |-> <<>>]

\* Shell::process_slashes: an error of process_slashes is logged
ProcessSlashes(self, faults) ==
    IF "process_slashes" \in faults
    THEN <<"Error while processing slashes queued for epoch">>
    ELSE <<>>

(***************************************************************************)
(* EthereumReceiver                                                        *)
(***************************************************************************)
BTreeInsertAppends(queue, event) ==
    IF \E i \in DOMAIN queue : queue[i] = event
    THEN queue
    ELSE Append(queue, event)

\* BTreeSet::insert on the queue: an event the queue holds is not inserted
\* again, a new one goes between the smaller and the greater events
BTreeInsert(queue, event) ==
    IF \E i \in DOMAIN queue : queue[i] = event
    THEN queue
    ELSE SelectSeq(queue, LAMBDA x : x < event)
            \o <<event>> \o SelectSeq(queue, LAMBDA x : x > event)

\* BTreeSet::remove on the queue
BTreeRemove(queue, event) == SelectSeq(queue, LAMBDA x : x # event)

RECURSIVE FillQueueStopsAtDuplicate(_, _)
FillQueueStopsAtDuplicate(queue, channel) ==
    IF channel = <<>> \/ \E i \in DOMAIN queue : queue[i] = Head(channel)
    THEN queue
    ELSE FillQueueStopsAtDuplicate(BTreeInsert(queue, Head(channel)),
                                   Tail(channel))

\* EthereumReceiver::fill_queue: every event waiting in the channel is
\* pulled and inserted in the queue
RECURSIVE FillQueue(_, _)
FillQueue(queue, channel) ==
    IF channel = <<>>
    THEN queue
    ELSE FillQueue(BTreeInsert(queue, Head(channel)), Tail(channel))

\* EthereumReceiver::get_events: the events of the queue in its order
GetEvents(queue) == [i \in 1..Len(queue) |-> queue[i]]

\* EthereumReceiver::remove_event
RemoveEvent(queue, event) == BTreeRemove(queue, event)

\* the events a receiver was given and still owes, as they first arrived,
\* after the events of a channel have arrived too
RECURSIVE Arrived(_, _)
Arrived(received, channel) ==
    IF channel = <<>>
    THEN received
    ELSE Arrived(IF \E i \in DOMAIN received : received[i] = Head(channel)
                 THEN received
                 ELSE Append(received, Head(channel)),
                 Tail(channel))

(***************************************************************************)
(* Shell::update_eth_oracle and the oracle's part of Shell::commit         *)
(***************************************************************************)
\* ShellMode: a validator, with or without the channels of an Ethereum
\* oracle, a full node or a seed node
ValidatorMode(eth_oracle) == [tag |-> "Validator", eth_oracle |-> eth_oracle]
FullMode == [tag |-> "Full", eth_oracle |-> None]
SeedMode == [tag |-> "Seed", eth_oracle |-> None]

\* the command of oracle::control::Command the shell sends
UpdateConfig(config) == [command |-> "UpdateConfig", config |-> config]

TrySendQueuesTwice(control_sender, command) ==
    IF control_sender.closed
    THEN [err |-> Some("Closed"), control_sender |-> control_sender]
    ELSE IF Len(control_sender.queue) >= control_sender.capacity
    THEN [err |-> Some("Full"), control_sender |-> control_sender]
    ELSE [err |-> None,
          control_sender |-> [control_sender EXCEPT
                                !.queue = Append(Append(@, command), command)]]

\* control_sender.try_send(command): an error at once when the receiver is
\* gone or no slot of the bounded channel is free, else the command is queued
TrySend(control_sender, command) ==
    IF control_sender.closed
    THEN [err |-> Some("Closed"), control_sender |-> control_sender]
    ELSE IF Len(control_sender.queue) >= control_sender.capacity
    THEN [err |-> Some("Full"), control_sender |-> control_sender]
    ELSE [err |-> None,
          control_sender |-> [control_sender EXCEPT
                                !.queue = Append(@, command)]]

StartBlockPrefersConfigured(self) ==
    IF self.storage.eth_start_height # None
    THEN self.storage.eth_start_height
    ELSE self.storage.ethereum_height

\* the block the oracle is to start from: storage.ethereum_height when one is
\* recorded, else the start height read from storage; None when neither is
\* there, where the read's expect panics
StartBlock(self) ==
    IF self.storage.ethereum_height # None
    THEN self.storage.ethereum_height
    ELSE self.storage.eth_start_height

SendUpdateConfigDropsWhenFull(control_sender, config) ==
    LET sent == TrySend(control_sender, UpdateConfig(config)) IN
    [control_sender |-> sent.control_sender,
     tries |-> 1,
     panic |-> IF sent.err = Some("Closed")
               THEN Some("The Ethereum oracle can no longer be communicated with")
               ELSE None]

\* the one try_send of the command and the match on its error
SendUpdateConfig(control_sender, config) ==
    LET sent == TrySend(control_sender, UpdateConfig(config)) IN
    [control_sender |-> sent.control_sender,
     tries |-> 1,
     panic |-> IF sent.err = Some("Full")
               THEN Some("The Ethereum oracle communication channel is full!")
               ELSE IF sent.err = Some("Closed")
               THEN Some("The Ethereum oracle can no longer be communicated with")
               ELSE None]

\* update_eth_oracle returns without a command
NoUpdate(self, log) ==
    [mode |-> self.mode, panic |-> None, log |-> log, command |-> None,
     tries |-> 0]

UpdateEthOracleUnwrapsConfig(self) ==
    IF self.mode.tag # "Validator" \/ self.mode.eth_oracle = None
    THEN NoUpdate(self, "")
    ELSE IF WlReadBridgeStatus(self) = None
    THEN NoUpdate(self,
            "Not starting oracle yet as storage has not been initialized")
    ELSE IF ~IsBridgeActive(self)
    THEN NoUpdate(self,
            "Not starting oracle as the Ethereum bridge is disabled")
    ELSE IF self.storage.eth_bridge_config = None \/ StartBlock(self) = None
    THEN [mode |-> self.mode,
          panic |-> Some("called Option::unwrap() on a None value"),
          log |-> "", command |-> None, tries |-> 0]
    ELSE
        LET eth_oracle == CHOOSE o \in self.mode.eth_oracle : TRUE
            bridge == CHOOSE c \in self.storage.eth_bridge_config : TRUE
            config ==
                [min_confirmations |-> bridge.min_confirmations,
                 bridge_contract |-> bridge.contracts.bridge,
                 governance_contract |-> bridge.contracts.governance,
                 start_block |-> CHOOSE b \in StartBlock(self) : TRUE]
            sent == SendUpdateConfig(eth_oracle.control_sender, config)
        IN  [mode |-> ValidatorMode(Some([eth_oracle EXCEPT
                        !.control_sender = sent.control_sender])),
             panic |-> sent.panic,
             log |-> "Starting the Ethereum oracle using values from block storage",
             command |-> Some(config),
             tries |-> sent.tries]

\* Shell::update_eth_oracle: the mode after the call, the panic that ended
\* it, its last log line, the command it decided to send and the number of
\* times it tried to send it
UpdateEthOracle(self) ==
    IF self.mode.tag # "Validator" \/ self.mode.eth_oracle = None
    THEN NoUpdate(self, "")
    ELSE IF WlReadBridgeStatus(self) = None
    THEN NoUpdate(self,
            "Not starting oracle yet as storage has not been initialized")
    ELSE IF ~IsBridgeActive(self)
    THEN NoUpdate(self,
            "Not starting oracle as the Ethereum bridge is disabled")
    ELSE IF self.storage.eth_bridge_config = None
    THEN NoUpdate(self,
            "Not starting oracle as the Ethereum bridge config couldn't be found in storage")
    ELSE IF StartBlock(self) = None
    THEN [mode |-> self.mode,
          panic |-> Some("The Ethereum start height should be in storage"),
          log |-> "", command |-> None, tries |-> 0]
    ELSE
        LET eth_oracle == CHOOSE o \in self.mode.eth_oracle : TRUE
            bridge == CHOOSE c \in self.storage.eth_bridge_config : TRUE
            config ==
                [min_confirmations |-> bridge.min_confirmations,
                 bridge_contract |-> bridge.contracts.bridge,
                 governance_contract |-> bridge.contracts.governance,
                 start_block |-> CHOOSE b \in StartBlock(self) : TRUE]
            sent == SendUpdateConfig(eth_oracle.control_sender, config)
        IN  [mode |-> ValidatorMode(Some([eth_oracle EXCEPT
                        !.control_sender = sent.control_sender])),
             panic |-> sent.panic,
             log |-> "Starting the Ethereum oracle using values from block storage",
             command |-> Some(config),
             tries |-> sent.tries]

\* Shell::commit: storage.ethereum_height becomes the height the oracle of a
\* validator reported last, when it reported one
CommitEthereumHeight(self) ==
    IF self.mode.tag = "Validator" /\ self.mode.eth_oracle # None
    THEN LET eth_oracle == CHOOSE o \in self.mode.eth_oracle : TRUE IN
         IF eth_oracle.last_processed_block # None
         THEN eth_oracle.last_processed_block
         ELSE self.storage.ethereum_height
    ELSE self.storage.ethereum_height

CommitModeUpdatesOracle(self) == UpdateEthOracle(self).mode

\* Shell::commit: the mode after the call; the watch channel of the oracle
\* is read, the control channel is not used
CommitMode(self) == self.mode

(***************************************************************************)
(* Shell::commit: the app hash and the broadcast of the protocol           *)
(* transactions; Shell::last_state                                         *)
(***************************************************************************)
\* storage.merkle_root(): the root of the tree over the keys and values of
\* the store, one value per content
MerkleRoot(store) ==
    <<store.hashes, store.balance, store.wrapper_tx_fees, store.pow_used,
      store.faucet_account, store.eth_bridge_status, store.eth_bridge_config,
      store.eth_start_height>>

\* response::Commit and response::Info as built by default()
DefaultCommitResponse == [data |-> <<>>]
DefaultInfoResponse == [last_block_app_hash |-> <<>>, last_block_height |-> 0]

\* the protocol key of a validator, None in the other modes
GetProtocolKey(shell_mode) ==
    IF shell_mode.tag = "Validator" THEN Some("protocol_key") ELSE None

\* craft_extension: the vote extensions of this validator for the last
\* committed height, those of the bridge when the bridge is active
CraftExtension(self) ==
    LET ext(key) == [block_height |-> self.storage.last_block.height,
                     validator_addr |-> "validator_address",
                     sig |-> key]
    IN  [ethereum_events |-> IF IsBridgeActive(self)
                             THEN Some(ext("protocol_key")) ELSE None,
         bridge_pool_root |-> IF IsBridgeActive(self)
                              THEN Some(ext("eth_bridge_key")) ELSE None]

\* iter_protocol_txs: one protocol transaction per extension present
IterProtocolTxs(ext) ==
    (IF ext.ethereum_events # None
     THEN <<[kind |-> "EthEventsVext", vext |-> ext.ethereum_events]>>
     ELSE <<>>)
    \o (IF ext.bridge_pool_root # None
        THEN <<[kind |-> "BridgePoolVext", vext |-> ext.bridge_pool_root]>>
        ELSE <<>>)

\* protocol_tx.sign(protocol_key, chain_id).to_bytes(): the bytes of the
\* transaction of this chain, with the key its signature was made with
SignProtocolTx(protocol_tx, key, chain_id) ==
    LET header == [chain_id |-> chain_id, expiration |-> None, code_hash |-> 1,
                   tx_type |-> ProtocolType(protocol_tx.kind)]
    IN  [data |-> [wf |-> TRUE, header |-> header,
                   sig |-> Some(HeaderHash(header)),
                   vext |-> protocol_tx.vext],
         signer |-> key]

\* the sender end of the channel to the broadcaster: what was sent on it,
\* and whether the broadcaster has dropped its end
NewBroadcastSender == [sent |-> <<>>, closed |-> FALSE]

\* ShellMode::broadcast: a validator sends the data, and panics when the
\* broadcaster is gone; the other modes do nothing
Broadcast(shell_mode, sender, data) ==
    IF shell_mode.tag = "Validator"
    THEN IF sender.closed
         THEN [broadcast_sender |-> sender, panic |-> TRUE]
         ELSE [broadcast_sender |-> [sender EXCEPT !.sent = Append(@, data)],
               panic |-> FALSE]
    ELSE [broadcast_sender |-> sender, panic |-> FALSE]

RECURSIVE BroadcastAll(_, _, _)
\* for tx in protocol_txs { self.mode.broadcast(tx) }
BroadcastAll(shell_mode, sender, txs) ==
    IF txs = <<>>
    THEN [broadcast_sender |-> sender, panic |-> FALSE]
    ELSE LET one == Broadcast(shell_mode, sender, Head(txs)) IN
         IF one.panic THEN one
         ELSE BroadcastAll(shell_mode, one.broadcast_sender, Tail(txs))

CommitBroadcastWithoutModeCheck(self, sender) ==
    LET protocol_txs == IterProtocolTxs(CraftExtension(self))
    IN  BroadcastAll(ValidatorMode(None), sender,
                     [i \in DOMAIN protocol_txs |->
                        SignProtocolTx(protocol_txs[i], "protocol_key",
                                       ShellChainId)])

\* Shell::commit, after the block is committed: a validator crafts its vote
\* extensions, signs the protocol transactions made of them with its
\* protocol key and broadcasts each
CommitBroadcast(self, sender) ==
    IF self.mode.tag = "Validator"
    THEN LET protocol_txs == IterProtocolTxs(CraftExtension(self))
             protocol_key == CHOOSE k \in GetProtocolKey(self.mode) : TRUE
         IN  BroadcastAll(self.mode, sender,
                          [i \in DOMAIN protocol_txs |->
                            SignProtocolTx(protocol_txs[i], protocol_key,
                                           ShellChainId)])
    ELSE [broadcast_sender |-> sender, panic |-> FALSE]

\* Shell::commit: the response carries the Merkle root of the store
CommitResponse(self) ==
    [DefaultCommitResponse EXCEPT !.data = MerkleRoot(self.storage)]

\* storage.get_state(): the root and height of the last committed block,
\* None when no block was committed
GetState(self) ==
    IF self.storage.last_block.height > 0
    THEN Some([root |-> MerkleRoot(self.storage),
               height |-> self.storage.last_block.height])
    ELSE None

LastStateReportsBlockInProgress(self) ==
    [DefaultInfoResponse EXCEPT
        !.last_block_app_hash = MerkleRoot(self.storage),
        !.last_block_height = self.storage.block.height]

\* Shell::last_state: the response to an Info request
LastState(self) ==
    IF GetState(self) # None
    THEN LET state == CHOOSE st \in GetState(self) : TRUE IN
         [DefaultInfoResponse EXCEPT
            !.last_block_app_hash = state.root,
            !.last_block_height = state.height]
    ELSE DefaultInfoResponse

\* the responses of the last Commit and Info, with the storage error the
\* Commit that returned last had logged: none yet
NoResponse == [commit |-> None, info |-> None, error |-> None]

\* self.wl_storage.commit_block().unwrap_or_else(|e| tracing::error!(..)):
\* the shell after the call; an error of the storage is logged and the shell
\* goes on with a store the block was not committed to
CommitBlock(self, storage_error) ==
    [ok |-> ~storage_error,
     committed |-> IF storage_error THEN self
                   ELSE [self EXCEPT !.storage = CommitBlockStorage(self),
                                     !.write_log = EmptyWriteLog]]

(***************************************************************************)
(* The state machine                                                       *)
(***************************************************************************)
\* the wrapper transactions a proposal may carry: well-formed, of this chain,
\* signed over their header
ProposalTxs ==
    {b \in TxBytes :
        /\ b.wf
        /\ b.header.tx_type.tag = "Wrapper"
        /\ b.header.chain_id = ShellChainId
        /\ b.header.expiration = None
        /\ b.sig = Some(HeaderHash(b.header))
        /\ \A w \in b.header.tx_type.wrapper : w.pk # MaspTxKey /\ w.fee = 0}

\* the replay-protection records found in the DB when the shell starts: none,
\* the wrapper hash of a transaction whose inner transaction may be wrapped
\* again, or both hashes of an applied transaction
PersistedHashes ==
    LET applied == CHOOSE b \in ProposalTxs :
            \A w \in b.header.tx_type.wrapper : w.pow_solution = None
    IN  {{}, {WrapperTxHash(applied)}, TxHashes(applied)}

\* Misbehavior reports of the consensus engine
Evidences == {[height |-> 0, type |-> 1, validator |-> Some("validator")]}

\* the events of the Ethereum oracle, each the number of its place in the
\* order of EthereumEvent
EthereumEvents == 1..MaxEvent
\* the events found in the oracle's channel by one fill_queue call, in the
\* order they were sent, an event possibly more than once
Batches == UNION {[1..n -> EthereumEvents] : n \in 0..MaxBatch}
\* EthereumReceiver::new: the queue is empty
NewEthereumReceiver == [queue |-> <<>>, received |-> <<>>]

NoCall == [made |-> FALSE]
\* no block finalized since the last Commit
NoSlashRunYet == [made |-> FALSE]

\* the PoS parameters of the chain
DefaultPosParams == [unbonding_len |-> 1, cubic_slashing_window_length |-> 1]
\* the validators of the chain by the hex text of their consensus address
ValidatorByRawHash ==
    [h \in {TmRawHashToString("validator")} |-> "validator_address"]
\* what can go wrong in the storage and PoS calls of a block: nothing, or an
\* error returned by one of the calls
NoFaults == {}
\* no replay_protection_checks call made yet in the proposal
NoRpCall == [made |-> FALSE, n |-> 0]

\* the Ethereum bridge configuration a chain with a bridge holds in storage
BridgeConfig ==
    [min_confirmations |-> 1,
     contracts |-> [bridge |-> "bridge_address",
                    governance |-> "governance_address"]]
\* the sender of the control channel the shell is given: of a channel with a
\* free slot, of a channel whose one slot is taken, of a channel whose
\* receiver has been dropped
FreeControlSender == [queue |-> <<>>, capacity |-> 1, closed |-> FALSE]
FullControlSender ==
    [queue |-> <<UpdateConfig([min_confirmations |-> 1,
                               bridge_contract |-> "bridge_address",
                               governance_contract |-> "governance_address",
                               start_block |-> 0])>>,
     capacity |-> 1, closed |-> FALSE]
ClosedControlSender == [queue |-> <<>>, capacity |-> 1, closed |-> TRUE]
\* EthereumOracleChannels::new: the channels of an oracle that has not yet
\* processed a block
EthereumOracleChannels(control_sender) ==
    [control_sender |-> control_sender, last_processed_block |-> None]
\* a validator with an oracle
DefaultMode == ValidatorMode(Some(EthereumOracleChannels(FreeControlSender)))

\* Shell::new up to the shell it returns: the last state is loaded from the
\* DB, the write log is empty, no evidence is pending; update_eth_oracle is
\* called before the shell is returned
NewShell(last_state, shell_mode) ==
    LET shell == [storage |-> last_state, write_log |-> EmptyWriteLog,
                  temp_wl |-> {}, byzantine_validators |-> <<>>,
                  tx_queue |-> <<>>, eth_queue |-> <<>>, mode |-> shell_mode]
        update == UpdateEthOracle(shell)
    IN  [self |-> shell, after |-> update.mode, panic |-> update.panic,
         log |-> update.log, command |-> update.command,
         tries |-> update.tries]

\* the record of a startup: the shell update_eth_oracle was called on and
\* what the call did, the command the startup before it sent with the start
\* block found in storage then, and the number of startups so far
Startup(new, previous, startups) ==
    [made |-> TRUE, self |-> new.self, after |-> new.after,
     panic |-> new.panic, log |-> new.log, command |-> new.command,
     tries |-> new.tries, previous |-> previous, startups |-> startups]

\* Shell::new as the first startup of the node
ShellNew(last_state, shell_mode) ==
    LET new == NewShell(last_state, shell_mode)
    IN  /\ storage = last_state
        /\ write_log = EmptyWriteLog
        /\ temp_wl = {}
        /\ byzantine_validators = <<>>
        /\ tx_queue = <<>>
        /\ eth_queue = <<>>
        /\ eth_received = <<>>
        /\ peer_receiver = NewEthereumReceiver
        /\ broadcast_sender = NewBroadcastSender
        /\ abci_response = NoResponse
        /\ mode = new.after
        /\ oracle_update = Startup(new, None, 1)
        /\ pc = IF new.panic # None THEN "panicked" ELSE "committed"
        /\ call = NoCall
        /\ rp_call = NoRpCall
        /\ slash_run = NoSlashRunYet

\* the shell of a validator with an oracle starts on a chain with an enabled
\* bridge
Init ==
    \E hs \in PersistedHashes :
        ShellNew([hashes |-> hs,
                  balance |-> [a \in Addresses |-> IF a = "user" THEN 1 ELSE 0],
                  wrapper_tx_fees |-> Some(1),
                  pow_used |-> {},
                  faucet_account |-> Some("faucet"),
                  eth_bridge_status |-> Some("Enabled"),
                  eth_bridge_config |-> Some(BridgeConfig),
                  eth_start_height |-> Some(0),
                  ethereum_height |-> None,
                  db_ethereum_height |-> None,
                  block |-> [height |-> 0, time |-> 0, epoch |-> 0],
                  last_block |-> [height |-> 0, time |-> 0, epoch |-> 0],
                  last_epoch |-> 0,
                  pred_epochs |-> <<0>>,
                  pos_params |-> DefaultPosParams,
                  validator_by_raw_hash |-> ValidatorByRawHash],
                 DefaultMode)

\* the shell: the fields of Shell the model holds
Shell ==
    [storage |-> storage, write_log |-> write_log, temp_wl |-> temp_wl,
     byzantine_validators |-> byzantine_validators, tx_queue |-> tx_queue,
     eth_queue |-> eth_queue, mode |-> mode]

\* CheckTx: mempool_validate answers a request; the response is on its way to
\* the consensus engine
CheckTx(tx_bytes, type) ==
    /\ UNCHANGED <<slash_run, mode, oracle_update, eth_received, peer_receiver, broadcast_sender,
                   abci_response>>
    /\ ~call.made
    /\ call' = [made |-> TRUE, tx_bytes |-> tx_bytes, type |-> type,
                response |-> MempoolValidate(Shell, tx_bytes, type)]
    /\ LET after == MempoolValidateShell(Shell) IN
        /\ storage' = after.storage
        /\ write_log' = after.write_log
        /\ temp_wl' = after.temp_wl
        /\ byzantine_validators' = after.byzantine_validators
        /\ tx_queue' = after.tx_queue
        /\ eth_queue' = after.eth_queue
    /\ UNCHANGED <<pc, rp_call>>

\* the response of the last CheckTx has reached the consensus engine, which
\* sends its next request
ReturnCheckTx ==
    /\ UNCHANGED <<slash_run, mode, oracle_update, eth_received, peer_receiver, broadcast_sender,
                   abci_response>>
    /\ call.made
    /\ call' = NoCall
    /\ UNCHANGED <<storage, write_log, temp_wl, byzantine_validators, tx_queue,
                   eth_queue, pc, rp_call>>

\* PrepareProposal: the evidence of the block is kept for FinalizeBlock; the
\* temporary write log of the proposal is dropped at the end
PrepareProposal(evidence) ==
    /\ UNCHANGED <<slash_run, mode, oracle_update, eth_received, peer_receiver, broadcast_sender,
                   abci_response>>
    /\ ~call.made
    /\ pc = "committed"
    /\ storage.last_block.height < MaxBlocks
    /\ storage.last_block.time < MaxTime
    /\ byzantine_validators' = evidence
    /\ pc' = "prepared"
    /\ UNCHANGED call
    /\ UNCHANGED <<storage, write_log, temp_wl, tx_queue, eth_queue, rp_call>>

\* ProcessProposal: validates the proposal in a temporary write log and drops it
ProcessProposal ==
    /\ UNCHANGED <<slash_run, mode, oracle_update, eth_received, peer_receiver, broadcast_sender,
                   abci_response>>
    /\ ~call.made
    /\ pc = "prepared"
    /\ pc' = "processed"
    /\ UNCHANGED call
    /\ UNCHANGED <<storage, write_log, temp_wl, byzantine_validators, tx_queue,
                   eth_queue, rp_call>>

\* the wrapper transactions FinalizeBlock may be given: those the proposal
\* checks let through (no replay, fee covered or a valid PoW solution)
BlockTxs ==
    {b \in ProposalTxs :
        /\ ReplayProtectionChecks(Shell, CHOOSE t \in TxTryFrom(b) : TRUE, b, {}).ok
        /\ \A w \in b.header.tx_type.wrapper :
            \/ HasValidPowSolution(Shell, w)
            \/ GetWrapperTxFees(Shell) <= WlReadBalance(Shell, FeePayer(w))}

\* the write log after a wrapper transaction of the block is applied: its two
\* hashes are recorded, and its fee is charged or its PoW solution invalidated
ApplyWrapper(wl, b) ==
    LET w == CHOOSE x \in b.header.tx_type.wrapper : TRUE
        payer == FeePayer(w)
    IN  IF HasValidPowSolution(Shell, w)
        THEN [wl EXCEPT !.hashes = @ \cup TxHashes(b),
                        !.pow_used = @ \cup {ImplicitAddress(w.pk)}]
        ELSE [wl EXCEPT !.hashes = @ \cup TxHashes(b),
                        !.balance[payer] =
                            Some(WlReadBalance(Shell, payer) - GetWrapperTxFees(Shell))]

\* FinalizeBlock: the block header is set and its epoch, a new one or the
\* last, is entered in the epochs of the heights, the evidence is turned into
\* slashes and the matured slashes are processed, the wrapper transactions of
\* the block are queued and their effects, and the parameter changes of the
\* block, are written to the write log. A panic on the way ends the process.
FinalizeBlock(time, new_epoch, block_txs, fees_write, bridge_write, faults) ==
    /\ UNCHANGED <<mode, oracle_update, eth_received, peer_receiver, broadcast_sender,
                   abci_response>>
    /\ ~call.made
    /\ pc = "processed"
    /\ time > storage.last_block.time
    /\ LET epoch == IF new_epoch THEN storage.last_epoch + 1
                    ELSE storage.last_epoch
       IN  storage' = [storage EXCEPT
                !.block = [height |-> storage.last_block.height + 1,
                           time |-> time,
                           epoch |-> epoch],
                !.pred_epochs = Append(@, epoch)]
    /\ LET run == RecordSlashesFromEvidence([Shell EXCEPT !.storage = storage'],
                                            faults)
           wl == IF block_txs = None THEN write_log
                 ELSE ApplyWrapper(write_log, CHOOSE b \in block_txs : TRUE)
       IN  /\ byzantine_validators' = run.byzantine_validators
           /\ IF run.panic
              THEN /\ slash_run' = [made |-> TRUE, evidence |-> run.evidence,
                                    outcomes |-> run.outcomes, log |-> <<>>,
                                    faults |-> faults]
                   /\ pc' = "panicked"
                   /\ UNCHANGED <<write_log, tx_queue>>
              ELSE /\ slash_run' = [made |-> TRUE, evidence |-> run.evidence,
                                    outcomes |-> run.outcomes,
                                    log |-> ProcessSlashes(Shell, faults),
                                    faults |-> faults]
                   /\ write_log' = [wl EXCEPT !.wrapper_tx_fees = fees_write,
                                               !.eth_bridge_status = bridge_write]
                   /\ tx_queue' = IF block_txs = None THEN <<>>
                                  ELSE <<CHOOSE b \in block_txs : TRUE>>
                   /\ pc' = "finalized"
    /\ UNCHANGED call
    /\ UNCHANGED <<temp_wl, eth_queue, rp_call>>

\* Commit: the write log is committed to the store and the height the oracle
\* processed last is recorded; a validator then crafts its vote extensions,
\* pulling the oracle's new events into the queue, and broadcasts the
\* protocol transactions made of them; the response carries the app hash
CommitRequest(new_events, storage_error) ==
    /\ ~call.made
    /\ pc = "finalized"
    /\ LET commit_block == CommitBlock(Shell, storage_error)
           committed == commit_block.committed
           broadcast == CommitBroadcast(committed, broadcast_sender)
       IN  /\ storage' = [committed.storage EXCEPT
                            !.ethereum_height = CommitEthereumHeight(committed)]
           /\ write_log' = committed.write_log
           /\ mode' = CommitMode(committed)
           /\ broadcast_sender' = broadcast.broadcast_sender
           /\ abci_response' =
                IF broadcast.panic THEN abci_response
                ELSE [abci_response EXCEPT
                        !.commit = Some(CommitResponse(committed)),
                        !.error =
                            IF commit_block.ok THEN None
                            ELSE Some("Encountered a storage error while committing a block")]
           /\ pc' = IF broadcast.panic THEN "panicked" ELSE "committed"
           /\ eth_queue' = IF mode.tag = "Validator"
                           THEN FillQueue(eth_queue, new_events)
                           ELSE eth_queue
           /\ eth_received' = IF mode.tag = "Validator"
                              THEN Arrived(eth_received, new_events)
                              ELSE eth_received
    /\ UNCHANGED oracle_update
    /\ UNCHANGED peer_receiver
    /\ slash_run' = NoSlashRunYet
    /\ UNCHANGED call
    /\ UNCHANGED <<temp_wl, byzantine_validators, tx_queue, rp_call>>

\* a Commit request served by a storage that works
Commit(new_events) == CommitRequest(new_events, FALSE)

\* a Commit request served while the storage fails to commit the block; the
\* storage does not fail twice in a row
CommitOnStorageError ==
    /\ abci_response.error = None
    /\ CommitRequest(<<>>, TRUE)

\* Info: last_state answers the request; the response is on its way to the
\* consensus engine
Info ==
    /\ ~call.made
    /\ pc # "panicked"
    /\ abci_response.info = None
    /\ abci_response' = [abci_response EXCEPT !.info = Some(LastState(Shell))]
    /\ UNCHANGED <<storage, write_log, temp_wl, byzantine_validators, tx_queue,
                   eth_queue, pc, call, rp_call, slash_run, mode,
                   oracle_update, eth_received, peer_receiver,
                   broadcast_sender>>

\* the response to the last Info has reached the consensus engine
ReturnInfo ==
    /\ abci_response.info # None
    /\ abci_response' = [abci_response EXCEPT !.info = None]
    /\ UNCHANGED <<storage, write_log, temp_wl, byzantine_validators, tx_queue,
                   eth_queue, pc, call, rp_call, slash_run, mode,
                   oracle_update, eth_received, peer_receiver,
                   broadcast_sender>>

\* the broadcaster ends and drops its end of the channel
BroadcasterStops ==
    /\ pc # "panicked"
    /\ ~broadcast_sender.closed
    /\ broadcast_sender' = [broadcast_sender EXCEPT !.closed = TRUE]
    /\ UNCHANGED <<storage, write_log, temp_wl, byzantine_validators, tx_queue,
                   eth_queue, pc, call, rp_call, slash_run, mode,
                   oracle_update, eth_received, peer_receiver, abci_response>>

Next ==
    \/ \E tx_bytes \in TxBytes, type \in MempoolTxTypes : CheckTx(tx_bytes, type)
    \/ ReturnCheckTx
    \/ \E evidence \in {<<>>} \cup {<<e>> : e \in Evidences} :
            PrepareProposal(evidence)
    \/ ProcessProposal
    \/ \E time \in Times,
          block_txs \in {None} \cup {Some(b) : b \in BlockTxs},
          fees_write \in {None, Some(MinFeeWhole)} :
            FinalizeBlock(time, TRUE, block_txs, fees_write, None, NoFaults)
    \/ \E new_events \in {<<>>, <<1>>} : Commit(new_events)

Spec == Init /\ [][Next]_vars

(***************************************************************************)
(* The proposal stages step by step: each transaction of a proposal goes   *)
(* through replay_protection_checks in the proposal's temporary write log  *)
(***************************************************************************)
\* the wrapper transactions that reach the replay check of a proposal:
\* well-formed, of this chain, signed over their header
ReplayCheckedTxs ==
    {b \in TxBytes :
        /\ b.wf
        /\ b.header.tx_type.tag = "Wrapper"
        /\ b.header.chain_id = ShellChainId
        /\ b.sig = Some(HeaderHash(b.header))}

\* a proposal stage starts: TempWlStorage::new(&self.wl_storage.storage)
BeginProposal(evidence) ==
    /\ UNCHANGED <<slash_run, mode, oracle_update, eth_received, peer_receiver, broadcast_sender,
                   abci_response>>
    /\ pc = "committed"
    /\ storage.last_block.height < MaxBlocks
    /\ storage.last_block.time < MaxTime
    /\ temp_wl' = {}
    /\ rp_call' = NoRpCall
    /\ byzantine_validators' = evidence
    /\ pc' = "proposal"
    /\ UNCHANGED <<storage, write_log, tx_queue, eth_queue, call>>

\* one transaction of the proposal goes through replay_protection_checks
CheckReplay(tx_bytes) ==
    /\ UNCHANGED <<slash_run, mode, oracle_update, eth_received, peer_receiver, broadcast_sender,
                   abci_response>>
    /\ pc = "proposal"
    /\ rp_call.n < MaxProposalTxs
    /\ LET result == ReplayProtectionChecks(
                        Shell, CHOOSE t \in TxTryFrom(tx_bytes) : TRUE, tx_bytes,
                        temp_wl)
       IN  /\ temp_wl' = result.overlay
           /\ rp_call' = [made |-> TRUE, n |-> rp_call.n + 1,
                          tx_bytes |-> tx_bytes, before |-> temp_wl,
                          ok |-> result.ok, err |-> result.err]
    /\ LET after == ReplayProtectionChecksShell(
                        Shell, CHOOSE t \in TxTryFrom(tx_bytes) : TRUE, tx_bytes)
       IN  /\ storage' = after.storage
           /\ write_log' = after.write_log
           /\ byzantine_validators' = after.byzantine_validators
           /\ tx_queue' = after.tx_queue
           /\ eth_queue' = after.eth_queue
    /\ UNCHANGED <<pc, call>>

\* the proposal stage ends: its temporary write log is dropped
EndProposal ==
    /\ UNCHANGED <<slash_run, mode, oracle_update, eth_received, peer_receiver, broadcast_sender,
                   abci_response>>
    /\ pc = "proposal"
    /\ temp_wl' = {}
    /\ rp_call' = NoRpCall
    /\ pc' = "processed"
    /\ UNCHANGED <<storage, write_log, byzantine_validators, tx_queue,
                   eth_queue, call>>

NextReplay ==
    \/ \E evidence \in {<<>>} \cup {<<e>> : e \in Evidences} :
            BeginProposal(evidence)
    \/ \E tx_bytes \in ReplayCheckedTxs : CheckReplay(tx_bytes)
    \/ EndProposal
    \/ \E time \in Times,
          block_txs \in {None} \cup {Some(b) : b \in BlockTxs},
          fees_write \in {None, Some(MinFeeWhole)} :
            FinalizeBlock(time, TRUE, block_txs, fees_write, None, NoFaults)
    \/ \E new_events \in {<<>>, <<1>>} : Commit(new_events)

SpecReplay == Init /\ [][NextReplay]_vars

(***************************************************************************)
(* The same wrapper transactions sent to CheckTx and checked in a proposal *)
(***************************************************************************)
\* wrapper transactions of this chain, with and without expiration, PoW
\* solution and signature
AgreeTxs ==
    {b \in TxBytes :
        /\ b.wf
        /\ b.header.tx_type.tag = "Wrapper"
        /\ b.header.chain_id = ShellChainId
        /\ b.sig \in {None, Some(HeaderHash(b.header))}
        /\ \A w \in b.header.tx_type.wrapper : w.pk # MaspTxKey /\ w.fee = 0}

NextAgree ==
    \/ \E tx_bytes \in AgreeTxs, type \in MempoolTxTypes : CheckTx(tx_bytes, type)
    \/ ReturnCheckTx
    \/ BeginProposal(<<>>)
    \/ \E tx_bytes \in AgreeTxs : CheckReplay(tx_bytes)
    \/ EndProposal
    \/ \E time \in Times, block_txs \in {None} \cup {Some(b) : b \in BlockTxs} :
            FinalizeBlock(time, TRUE, block_txs, None, None, NoFaults)
    \/ Commit(<<>>)

SpecAgree == Init /\ [][NextAgree]_vars

(***************************************************************************)
(* The block lifecycle with evidence of every kind, PoS parameters of      *)
(* several sizes and failing storage and PoS calls                         *)
(***************************************************************************)
\* number of evidence items of one block
MaxEvidence == 2

\* evidence that passes every check when it is not outdated
ValidEvidences ==
    [height : {0, 1}, type : {1, 2}, validator : {Some("validator")}]

\* evidence with one defect: a negative height, a height past the chain, the
\* fault type Unknown, an unrecognized fault type, no validator, a validator
\* the chain does not know
DefectiveEvidences ==
    {[height |-> -1, type |-> 1, validator |-> Some("validator")],
     [height |-> MaxBlocks + 1, type |-> 1, validator |-> Some("validator")],
     [height |-> 0, type |-> 0, validator |-> Some("validator")],
     [height |-> 0, type |-> 7, validator |-> Some("validator")],
     [height |-> 0, type |-> 1, validator |-> None],
     [height |-> 0, type |-> 1, validator |-> Some("stranger")]}

SlashingEvidences == ValidEvidences \cup DefectiveEvidences

\* the evidence lists of a block
EvidenceLists ==
    UNION {[1..n -> SlashingEvidences] : n \in 0..MaxEvidence}

\* the PoS parameters a chain may have
PosParams == [unbonding_len : {0, 1}, cubic_slashing_window_length : {0, 1}]

\* at most one of the storage and PoS calls of a block fails
FaultSets ==
    {NoFaults, {"pos_params"}, {"find_validator"}, {"slash"}, {"process_slashes"}}

InitSlashing ==
    \E pos_params \in PosParams :
        ShellNew([hashes |-> {},
                  balance |-> [a \in Addresses |-> IF a = "user" THEN 1 ELSE 0],
                  wrapper_tx_fees |-> Some(1),
                  pow_used |-> {},
                  faucet_account |-> Some("faucet"),
                  eth_bridge_status |-> Some("Enabled"),
                  eth_bridge_config |-> Some(BridgeConfig),
                  eth_start_height |-> Some(0),
                  ethereum_height |-> None,
                  db_ethereum_height |-> None,
                  block |-> [height |-> 0, time |-> 0, epoch |-> 0],
                  last_block |-> [height |-> 0, time |-> 0, epoch |-> 0],
                  last_epoch |-> 0,
                  pred_epochs |-> <<0>>,
                  pos_params |-> pos_params,
                  validator_by_raw_hash |-> ValidatorByRawHash],
                 DefaultMode)

NextSlashing ==
    \/ \E evidence \in EvidenceLists : PrepareProposal(evidence)
    \/ ProcessProposal
    \/ \E time \in Times, new_epoch \in BOOLEAN, faults \in FaultSets :
            FinalizeBlock(time, new_epoch, None, None, None, faults)
    \/ Commit(<<>>)

SpecSlashing == InitSlashing /\ [][NextSlashing]_vars

(***************************************************************************)
(* The block lifecycle next to an Ethereum oracle: shells of every mode    *)
(* start on chains with and without a bridge, blocks switch the bridge on  *)
(* and off, the oracle processes Ethereum blocks and reads its commands    *)
(***************************************************************************)
\* Ethereum block heights range over 0..MaxEthHeight
MaxEthHeight == 2

\* the heights storage.ethereum_height may hold at startup
EthereumHeights == {None} \cup {Some(h) : h \in 1..MaxEthHeight}

\* the bridge state found in storage at startup: of a chain not yet
\* initialized, of a chain with a disabled or an enabled bridge, with the
\* configuration and start height written at genesis or, for a chain without
\* a bridge, without them
BridgeStates ==
    {[status |-> None, config |-> None, start_height |-> None]}
    \cup [status : {Some("Enabled"), Some("Disabled")},
          config : {Some(BridgeConfig)},
          start_height : {Some(0), Some(1)}]
    \cup [status : {Some("Enabled"), Some("Disabled")},
          config : {None},
          start_height : {None}]

\* the modes a shell is started in
ShellModes ==
    {ValidatorMode(Some(EthereumOracleChannels(c))) :
        c \in {FreeControlSender, FullControlSender, ClosedControlSender}}
    \cup {ValidatorMode(None), FullMode, SeedMode}

InitOracle ==
    \E bridge \in BridgeStates, ethereum_height \in EthereumHeights,
       shell_mode \in ShellModes :
        ShellNew([hashes |-> {},
                  balance |-> [a \in Addresses |-> IF a = "user" THEN 1 ELSE 0],
                  wrapper_tx_fees |-> Some(1),
                  pow_used |-> {},
                  faucet_account |-> Some("faucet"),
                  eth_bridge_status |-> bridge.status,
                  eth_bridge_config |-> bridge.config,
                  eth_start_height |-> bridge.start_height,
                  ethereum_height |-> ethereum_height,
                  db_ethereum_height |-> ethereum_height,
                  block |-> [height |-> 0, time |-> 0, epoch |-> 0],
                  last_block |-> [height |-> 0, time |-> 0, epoch |-> 0],
                  last_epoch |-> 0,
                  pred_epochs |-> <<0>>,
                  pos_params |-> DefaultPosParams,
                  validator_by_raw_hash |-> ValidatorByRawHash],
                 shell_mode)

\* the channels of the shell's oracle
OracleChannels == CHOOSE o \in mode.eth_oracle : TRUE

\* the oracle has processed one more Ethereum block and reports it on the
\* watch channel
OracleProcessesBlock ==
    /\ pc # "panicked"
    /\ mode.eth_oracle # None
    /\ ~OracleChannels.control_sender.closed
    /\ LET last == OracleChannels.last_processed_block
           next == IF last = None THEN 0 ELSE (CHOOSE h \in last : TRUE) + 1
       IN  /\ next <= MaxEthHeight
           /\ mode' = [mode EXCEPT !.eth_oracle =
                        Some([OracleChannels EXCEPT
                                !.last_processed_block = Some(next)])]
    /\ UNCHANGED <<storage, write_log, temp_wl, byzantine_validators, tx_queue,
                   eth_queue, pc, call, rp_call, slash_run, oracle_update,
                   eth_received, peer_receiver, broadcast_sender,
                   abci_response>>

\* the oracle takes the next command off the control channel
OracleReceives ==
    /\ pc # "panicked"
    /\ mode.eth_oracle # None
    /\ ~OracleChannels.control_sender.closed
    /\ OracleChannels.control_sender.queue # <<>>
    /\ mode' = [mode EXCEPT !.eth_oracle =
                    Some([OracleChannels EXCEPT
                            !.control_sender.queue = Tail(@)])]
    /\ UNCHANGED <<storage, write_log, temp_wl, byzantine_validators, tx_queue,
                   eth_queue, pc, call, rp_call, slash_run, oracle_update,
                   eth_received, peer_receiver, broadcast_sender,
                   abci_response>>

\* the oracle ends and drops its end of the control channel
OracleStops ==
    /\ pc # "panicked"
    /\ mode.eth_oracle # None
    /\ ~OracleChannels.control_sender.closed
    /\ mode' = [mode EXCEPT !.eth_oracle =
                    Some([OracleChannels EXCEPT
                            !.control_sender.closed = TRUE])]
    /\ UNCHANGED <<storage, write_log, temp_wl, byzantine_validators, tx_queue,
                   eth_queue, pc, call, rp_call, slash_run, oracle_update,
                   eth_received, peer_receiver, broadcast_sender,
                   abci_response>>

\* the node is started at most MaxStartups times
MaxStartups == 2

\* Storage::load_last_state: the state the last commit_block wrote to the DB
LoadLastState(store) ==
    [store EXCEPT !.ethereum_height = store.db_ethereum_height]

\* the mode of the node started again: an oracle is started anew, with
\* channels of its own
RestartedMode(shell_mode) ==
    IF shell_mode.eth_oracle # None
    THEN ValidatorMode(Some(EthereumOracleChannels(FreeControlSender)))
    ELSE shell_mode

\* the command a startup sent, with the start block it found in storage
SentBy(startup) ==
    IF startup.command # None /\ startup.panic = None
    THEN Some([command |-> CHOOSE c \in startup.command : TRUE,
               ethereum_height |-> startup.self.storage.ethereum_height,
               eth_start_height |-> startup.self.storage.eth_start_height])
    ELSE startup.previous

\* the node is stopped between two blocks and started again: Shell::new on
\* the state in the DB
Restart ==
    /\ pc = "committed"
    /\ oracle_update.startups < MaxStartups
    /\ LET new == NewShell(LoadLastState(storage), RestartedMode(mode))
       IN  /\ storage' = new.self.storage
           /\ write_log' = EmptyWriteLog
           /\ temp_wl' = {}
           /\ byzantine_validators' = <<>>
           /\ tx_queue' = <<>>
           /\ eth_queue' = <<>>
           /\ eth_received' = <<>>
           /\ mode' = new.after
           /\ oracle_update' = Startup(new, SentBy(oracle_update),
                                       oracle_update.startups + 1)
           /\ pc' = IF new.panic # None THEN "panicked" ELSE "committed"
           /\ call' = NoCall
           /\ rp_call' = NoRpCall
           /\ slash_run' = NoSlashRunYet
    /\ broadcast_sender' = NewBroadcastSender
    /\ abci_response' = NoResponse
    /\ UNCHANGED peer_receiver

NextOracle ==
    \/ PrepareProposal(<<>>)
    \/ ProcessProposal
    \/ \E time \in Times,
          bridge_write \in {None, Some("Enabled"), Some("Disabled")} :
            FinalizeBlock(time, TRUE, None, None, bridge_write, NoFaults)
    \/ Commit(<<>>)
    \/ OracleProcessesBlock
    \/ OracleReceives
    \/ OracleStops
    \/ Restart

SpecOracle == InitOracle /\ [][NextOracle]_vars

(***************************************************************************)
(* CheckTx of vote extension transactions of every signer, key and height, *)
(* on chains whose bridge is switched on and off and whose epochs last one *)
(* block or more                                                           *)
(***************************************************************************)
\* the protocol transactions with a vote extension, of this chain, without
\* expiration and signed over their header
VextTxBytes ==
    UNION {
        {[wf |-> TRUE, header |-> hd, sig |-> Some(HeaderHash(hd)),
          vext |-> Some(ext)] : ext \in AllVexts} :
        hd \in {h \in Headers :
                    /\ h.chain_id = ShellChainId
                    /\ h.expiration = None
                    /\ h.tx_type.tag = "Protocol"
                    /\ h.tx_type.protocol # Some("DKG")}}

InitVext ==
    \E status \in {"Enabled", "Disabled"} :
        ShellNew([hashes |-> {},
                  balance |-> [a \in Addresses |-> IF a = "user" THEN 1 ELSE 0],
                  wrapper_tx_fees |-> Some(1),
                  pow_used |-> {},
                  faucet_account |-> Some("faucet"),
                  eth_bridge_status |-> Some(status),
                  eth_bridge_config |-> Some(BridgeConfig),
                  eth_start_height |-> Some(0),
                  ethereum_height |-> None,
                  db_ethereum_height |-> None,
                  block |-> [height |-> 0, time |-> 0, epoch |-> 0],
                  last_block |-> [height |-> 0, time |-> 0, epoch |-> 0],
                  last_epoch |-> 0,
                  pred_epochs |-> <<0>>,
                  pos_params |-> DefaultPosParams,
                  validator_by_raw_hash |-> ValidatorByRawHash],
                 DefaultMode)

NextVext ==
    \/ \E tx_bytes \in VextTxBytes, type \in MempoolTxTypes :
            CheckTx(tx_bytes, type)
    \/ ReturnCheckTx
    \/ PrepareProposal(<<>>)
    \/ ProcessProposal
    \/ \E time \in Times, new_epoch \in BOOLEAN,
          bridge_write \in {None, Some("Enabled"), Some("Disabled")} :
            FinalizeBlock(time, new_epoch, None, None, bridge_write, NoFaults)
    \/ Commit(<<>>)

SpecVext == InitVext /\ [][NextVext]_vars

(***************************************************************************)
(* The EthereumReceiver of the shell and that of another validator: each   *)
(* pulls the events its oracle sent, in the order and the number the       *)
(* oracle sent them; events the shell has voted on are removed             *)
(***************************************************************************)
\* fill_queue of the shell's receiver
ShellFillQueue(channel) ==
    /\ eth_queue' = FillQueue(eth_queue, channel)
    /\ eth_received' = Arrived(eth_received, channel)
    /\ UNCHANGED <<storage, write_log, temp_wl, byzantine_validators, tx_queue,
                   pc, call, rp_call, slash_run, mode, oracle_update,
                   peer_receiver, broadcast_sender, abci_response>>

\* ShellMode::dequeue_eth_event: remove_event of the shell's receiver
DequeueEthEvent(event) ==
    /\ mode.tag = "Validator" /\ mode.eth_oracle # None
    /\ eth_queue' = RemoveEvent(eth_queue, event)
    /\ eth_received' = SelectSeq(eth_received, LAMBDA x : x # event)
    /\ UNCHANGED <<storage, write_log, temp_wl, byzantine_validators, tx_queue,
                   pc, call, rp_call, slash_run, mode, oracle_update,
                   peer_receiver, broadcast_sender, abci_response>>

\* fill_queue of the other validator's receiver
PeerFillQueue(channel) ==
    /\ peer_receiver' =
            [queue |-> FillQueue(peer_receiver.queue, channel),
             received |-> Arrived(peer_receiver.received, channel)]
    /\ UNCHANGED <<storage, write_log, temp_wl, byzantine_validators, tx_queue,
                   eth_queue, pc, call, rp_call, slash_run, mode,
                   oracle_update, eth_received, broadcast_sender,
                   abci_response>>

NextReceiver ==
    \/ \E channel \in Batches : ShellFillQueue(channel)
    \/ \E event \in EthereumEvents : DequeueEthEvent(event)
    \/ \E channel \in Batches : PeerFillQueue(channel)

SpecReceiver == Init /\ [][NextReceiver]_vars

(***************************************************************************)
(* Commit and Info on shells of every mode, next to a broadcaster that may *)
(* stop; and the same on a storage that may fail to commit a block         *)
(***************************************************************************)
\* the modes of the shells that commit
CommitModes == {DefaultMode, ValidatorMode(None), FullMode, SeedMode}

InitCommit ==
    \E status \in {"Enabled", "Disabled"}, shell_mode \in CommitModes :
        ShellNew([hashes |-> {},
                  balance |-> [a \in Addresses |-> IF a = "user" THEN 1 ELSE 0],
                  wrapper_tx_fees |-> Some(1),
                  pow_used |-> {},
                  faucet_account |-> Some("faucet"),
                  eth_bridge_status |-> Some(status),
                  eth_bridge_config |-> Some(BridgeConfig),
                  eth_start_height |-> Some(0),
                  ethereum_height |-> None,
                  db_ethereum_height |-> None,
                  block |-> [height |-> 0, time |-> 0, epoch |-> 0],
                  last_block |-> [height |-> 0, time |-> 0, epoch |-> 0],
                  last_epoch |-> 0,
                  pred_epochs |-> <<0>>,
                  pos_params |-> DefaultPosParams,
                  validator_by_raw_hash |-> ValidatorByRawHash],
                 shell_mode)

NextCommit ==
    \/ PrepareProposal(<<>>)
    \/ ProcessProposal
    \/ \E time \in Times,
          block_txs \in {None} \cup {Some(b) : b \in BlockTxs},
          bridge_write \in {None, Some("Enabled"), Some("Disabled")} :
            FinalizeBlock(time, TRUE, block_txs, None, bridge_write, NoFaults)
    \/ Commit(<<>>)
    \/ Info
    \/ ReturnInfo
    \/ BroadcasterStops

SpecCommit == InitCommit /\ [][NextCommit]_vars

NextStorageError ==
    \/ NextCommit
    \/ CommitOnStorageError

SpecStorageError == InitCommit /\ [][NextStorageError]_vars

(***************************************************************************)
(* CheckTx of wrapper transactions on chains of every fee, balance, faucet *)
(* and record of spent PoW challenges                                      *)
(***************************************************************************)
\* the wrapper transactions of this chain, without expiration and signed
\* over their header
FeeTxBytes ==
    {b \in TxBytes :
        /\ b.wf
        /\ b.header.tx_type.tag = "Wrapper"
        /\ b.header.chain_id = ShellChainId
        /\ b.header.expiration = None
        /\ b.sig = Some(HeaderHash(b.header))}

\* the balances of the fee token found in storage
FeeBalances ==
    {bal \in [Addresses -> {0, 1, MinFeeWhole}] :
        bal["masp_key_owner"] # MinFeeWhole /\ bal[MaspAddress] # MinFeeWhole}

InitFees ==
    \E hs \in PersistedHashes, bal \in FeeBalances,
       fees \in {None, Some(1)},
       faucet \in {None, Some("faucet")},
       used \in {{}, {"user", "masp_key_owner"}} :
        ShellNew([hashes |-> hs,
                  balance |-> bal,
                  wrapper_tx_fees |-> fees,
                  pow_used |-> used,
                  faucet_account |-> faucet,
                  eth_bridge_status |-> Some("Enabled"),
                  eth_bridge_config |-> Some(BridgeConfig),
                  eth_start_height |-> Some(0),
                  ethereum_height |-> None,
                  db_ethereum_height |-> None,
                  block |-> [height |-> 0, time |-> 0, epoch |-> 0],
                  last_block |-> [height |-> 0, time |-> 0, epoch |-> 0],
                  last_epoch |-> 0,
                  pred_epochs |-> <<0>>,
                  pos_params |-> DefaultPosParams,
                  validator_by_raw_hash |-> ValidatorByRawHash],
                 DefaultMode)

NextFees ==
    \/ \E tx_bytes \in FeeTxBytes, type \in MempoolTxTypes :
            CheckTx(tx_bytes, type)
    \/ ReturnCheckTx
    \/ PrepareProposal(<<>>)
    \/ ProcessProposal
    \/ \E time \in Times, fees_write \in {None, Some(MinFeeWhole)} :
            FinalizeBlock(time, TRUE, None, fees_write, None, NoFaults)
    \/ Commit(<<>>)

SpecFees == InitFees /\ [][NextFees]_vars

(***************************************************************************)
(* Properties of mempool_validate                                          *)
(***************************************************************************)
\* the request answered last, its header and the code of its response
Bytes == call.tx_bytes
Hdr == call.tx_bytes.header
Code == call.response.code

\* the facts about the request the checks of mempool_validate decide on
Decodes == Bytes.wf
ForeignChain == Hdr.chain_id # ShellChainId
PastExpiration == \E exp \in Hdr.expiration : exp < storage.last_block.time
IsWrapper == Hdr.tx_type.tag = "Wrapper"
\* no signature section, or one made over another header than the current one
NotSigned == Bytes.sig = None
SignedOverOtherHeader ==
    \E h \in Bytes.sig : h # HeaderHash(Hdr)
HeaderInvalid ==
    Hdr.tx_type.tag \in {"Wrapper", "Protocol"} /\ (NotSigned \/ SignedOverOtherHeader)
\* the request passes the checks made before the dispatch
PassesChecks == Decodes /\ ~ForeignChain /\ ~PastExpiration /\ ~HeaderInvalid
InnerRecorded == InnerTxHash(Bytes) \in storage.hashes
WrapperRecorded == WrapperTxHash(Bytes) \in storage.hashes

\* C1: the checks run in the order deserialization, chain id, expiration,
\* header, dispatch, and the response carries the code of the first check
\* that fails, whatever the later checks would say
CheckOrder ==
    call.made =>
        /\ ~Decodes => Code = InvalidTx
        /\ Decodes /\ ForeignChain => Code = InvalidChainId
        /\ Decodes /\ ~ForeignChain /\ PastExpiration => Code = ExpiredTx
        /\ Decodes /\ ~ForeignChain /\ ~PastExpiration /\ HeaderInvalid
            => Code = InvalidSig
        /\ PassesChecks => Code \in {Ok, InvalidTx, ReplayTx, InvalidVoteExtension}

\* a request failing the chain id, the expiration and the header check at once
CheckOrderWitness ==
    /\ call.made /\ Decodes
    /\ ForeignChain /\ PastExpiration /\ HeaderInvalid
    /\ Code = InvalidChainId

\* C2: a deserializable transaction with a foreign chain id gets
\* InvalidChainId, and the log names the expected and the found chain id
ChainIdIsolation ==
    call.made /\ Decodes /\ ForeignChain =>
        /\ Code = InvalidChainId
        /\ call.response.log.chain_ids = <<ShellChainId, Hdr.chain_id>>

\* a correctly signed, unexpired wrapper of a foreign chain is rejected
ChainIdIsolationWitness ==
    /\ call.made /\ Decodes /\ ForeignChain
    /\ IsWrapper /\ ~HeaderInvalid /\ ~PastExpiration
    /\ Code = InvalidChainId

\* C3 as stated: every transaction whose expiration is strictly before the
\* last committed block time gets ExpiredTx
ExpiredAlwaysExpiredTx ==
    call.made /\ Decodes /\ PastExpiration => Code = ExpiredTx

\* C3 amended: every transaction of the shell's chain whose expiration is
\* strictly before the last committed block time gets ExpiredTx, whether or
\* not its signature is valid
ExpiredOnChainExpiredTx ==
    call.made /\ Decodes /\ ~ForeignChain /\ PastExpiration => Code = ExpiredTx

\* an expired wrapper of this chain without a signature gets ExpiredTx
ExpiredOnChainWitness ==
    /\ call.made /\ Decodes /\ ~ForeignChain /\ PastExpiration
    /\ IsWrapper /\ NotSigned
    /\ Code = ExpiredTx

\* C4: a wrapper that passes the chain id, expiration and signature checks and
\* whose wrapper hash or inner hash is in the committed replay-protection
\* records gets ReplayTx at every call, of either kind
IdempotentRejection ==
    call.made /\ PassesChecks /\ IsWrapper /\ (InnerRecorded \/ WrapperRecorded)
        => Code = ReplayTx

\* a recheck of a wrapper whose wrapper hash alone is recorded gets ReplayTx
IdempotentRejectionWitness ==
    /\ call.made /\ PassesChecks /\ IsWrapper
    /\ WrapperRecorded /\ ~InnerRecorded
    /\ call.type = "RecheckTransaction"
    /\ Code = ReplayTx

\* C5: the log of a ReplayTx rejection names the hash that collided: the
\* wrapper hash when it alone is recorded, the inner hash when it is recorded
ReplayLogNamesHash ==
    call.made /\ PassesChecks /\ IsWrapper =>
        /\ WrapperRecorded /\ ~InnerRecorded =>
            call.response.log =
                LogHash(INVALID_MSG,
                        "Wrapper transaction hash {} already in storage, replay attempt",
                        WrapperTxHash(Bytes))
        /\ InnerRecorded =>
            call.response.log =
                LogHash(INVALID_MSG,
                        "Inner transaction hash {} already in storage, replay attempt",
                        InnerTxHash(Bytes))

\* a wrapper with both hashes recorded is answered with the inner hash
ReplayLogWitness ==
    /\ call.made /\ PassesChecks /\ IsWrapper
    /\ WrapperRecorded /\ InnerRecorded
    /\ Code = ReplayTx
    /\ call.response.log.hash = Some(InnerTxHash(Bytes))

\* C6 as stated: a wrapper of this chain without a signature section, or with
\* a header changed after signing, gets InvalidSig
UnsignedAlwaysInvalidSig ==
    call.made /\ Decodes /\ ~ForeignChain /\ IsWrapper
        /\ (NotSigned \/ SignedOverOtherHeader)
        => Code = InvalidSig

\* C6 amended: a wrapper of this chain that is not expired, and has no
\* signature section or a header changed after signing, gets InvalidSig for
\* both kinds of request, whatever the replay records and balances are
UnsignedUnexpiredInvalidSig ==
    call.made /\ Decodes /\ ~ForeignChain /\ ~PastExpiration /\ IsWrapper
        /\ (NotSigned \/ SignedOverOtherHeader)
        => Code = InvalidSig

\* a recheck of a wrapper whose fee was changed after signing and whose inner
\* hash is recorded gets InvalidSig, not ReplayTx
UnsignedWitness ==
    /\ call.made /\ Decodes /\ ~ForeignChain /\ ~PastExpiration /\ IsWrapper
    /\ SignedOverOtherHeader /\ InnerRecorded
    /\ call.type = "RecheckTransaction"
    /\ Code = InvalidSig

\* C7: a Raw or Decrypted transaction that passes the chain id, expiration and
\* header checks gets InvalidTx; only Wrapper and Protocol ones get Ok
NoBareTxAdmitted ==
    call.made =>
        /\ PassesChecks /\ Hdr.tx_type.tag \in {"Raw", "Decrypted"}
            => Code = InvalidTx
        /\ Code = Ok => Decodes /\ Hdr.tx_type.tag \in {"Wrapper", "Protocol"}

\* a Decrypted transaction that passes the checks is rejected
NoBareTxWitness ==
    /\ call.made /\ PassesChecks
    /\ Hdr.tx_type.tag = "Decrypted"
    /\ Code = InvalidTx

\* C8: a mempool_validate call, whatever its outcome, leaves the committed
\* storage (with its replay records), the write log, the pending evidence,
\* the transaction queue and the Ethereum event queue as they were
ReadOnlyFilter ==
    [][call'.made /\ ~call.made =>
        UNCHANGED <<storage, write_log, temp_wl, byzantine_validators,
                    tx_queue, eth_queue>>]_vars

\* a call answered while evidence is pending and the event queue holds events
ReadOnlyWitness ==
    /\ call.made
    /\ byzantine_validators # <<>>
    /\ storage.hashes # {}
    /\ eth_queue # <<>>

\* C9: the response is the one the same request gets from the committed
\* state alone, with no uncommitted write of the block in progress
ReadsCommittedOnly ==
    call.made =>
        call.response =
            MempoolValidate([Shell EXCEPT !.write_log = EmptyWriteLog],
                            call.tx_bytes, call.type)

(***************************************************************************)
(* Properties of replay_protection_checks                                  *)
(***************************************************************************)
\* C10: a call that returns a ReplayAttempt error leaves the temporary write
\* log with exactly the keys it held before the call
ErrorLeavesOverlay ==
    rp_call.made /\ ~rp_call.ok => temp_wl = rp_call.before

\* the hashes of the transaction replay_protection_checks was called on last,
\* and what the temporary write log showed of them on entry
RpInner == InnerTxHash(rp_call.tx_bytes)
RpWrapper == WrapperTxHash(rp_call.tx_bytes)
InnerOnEntry == RpInner \in rp_call.before \cup storage.hashes
WrapperOnEntry == RpWrapper \in rp_call.before \cup storage.hashes
\* the replay-protection hashes the shell sees outside a proposal
VisibleHashes == storage.hashes \cup write_log.hashes

\* C11: replay_protection_checks writes only into the temporary write log: a
\* call leaves the committed storage and the shell's write log unchanged, no
\* step of a proposal stage (its end included) changes the hashes the shell
\* sees, and the committed hashes change only in a Commit step
ProposalLeavesNoTrace ==
    [][/\ rp_call' # rp_call /\ rp_call'.made => UNCHANGED <<storage, write_log>>
       /\ pc = "proposal" => VisibleHashes' = VisibleHashes
       /\ storage'.hashes # storage.hashes
            => pc = "finalized" /\ pc' = "committed"]_vars

\* an accepted call has put hashes in the temporary write log that the shell
\* does not see in its storage or write log
ProposalLeavesNoTraceWitness ==
    /\ rp_call.made /\ rp_call.ok
    /\ temp_wl # {}
    /\ temp_wl \cap VisibleHashes = {}

\* C12: the error names the inner hash exactly when the inner hash is in the
\* temporary write log's view on entry, the wrapper hash exactly when the
\* inner hash is absent and the wrapper hash present, and the call returns Ok
\* exactly when both are absent
ReplayErrorNamesHash ==
    rp_call.made =>
        /\ rp_call.ok <=> ~InnerOnEntry /\ ~WrapperOnEntry
        /\ (~rp_call.ok /\ rp_call.err =
                LogHash("Transaction replay attempt",
                        "Inner transaction hash {} already in storage", RpInner))
            <=> InnerOnEntry
        /\ (~rp_call.ok /\ rp_call.err =
                LogHash("Transaction replay attempt",
                        "Wrapper transaction hash {} already in storage", RpWrapper))
            <=> ~InnerOnEntry /\ WrapperOnEntry

\* a second wrapper of the same proposal with the same inner transaction is
\* refused with the inner hash, which the first one wrote
ReplayErrorWitness ==
    /\ rp_call.made /\ ~rp_call.ok
    /\ RpInner \in rp_call.before /\ RpInner \notin storage.hashes
    /\ RpWrapper \notin rp_call.before
    /\ rp_call.err.hash = Some(RpInner)

(***************************************************************************)
(* Properties of record_slashes_from_evidence and process_slashes          *)
(***************************************************************************)
\* the evidence of the block finalized last, and what was done with each item
RunEvidence == slash_run.evidence
RunOutcomes == slash_run.outcomes
\* facts about an evidence item in the block that is being finalized
ResolvesEpoch(e) == e.height >= 0 /\ e.height + 1 <= Len(storage.pred_epochs)
EpochOf(e) == storage.pred_epochs[e.height + 1]
WindowSum(e) ==
    EpochOf(e) + SlashProcessingEpochOffset(storage.pos_params)
        - storage.pos_params.cubic_slashing_window_length
OutdatedItem(e) == WindowSum(e) <= storage.block.epoch
Defective(e) ==
    \/ ~ResolvesEpoch(e)
    \/ e.type \notin {1, 2}
    \/ e.validator = None
    \/ \E v \in e.validator :
            TmRawHashToString(v) \notin DOMAIN storage.validator_by_raw_hash
PassesDiscardChecks(e) == ~Defective(e) /\ ~OutdatedItem(e)
\* no storage read failed in the run
ReadsSucceed == slash_run.faults \cap {"pos_params", "find_validator"} = {}

\* C13: FinalizeBlock takes the whole pending evidence list and leaves it
\* empty; each item taken is looked at at most once, in order, and a block
\* finalized with no pending evidence makes no slash call
EvidenceDrainedOnce ==
    [][/\ pc = "processed" /\ pc' # "processed" =>
            /\ byzantine_validators' = <<>>
            /\ slash_run'.evidence = byzantine_validators
            /\ Len(slash_run'.outcomes) <= Len(byzantine_validators)
            /\ \A i \in 1..Len(slash_run'.outcomes) :
                    slash_run'.outcomes[i].evidence = byzantine_validators[i]
            /\ byzantine_validators = <<>> => SlashesOf(slash_run'.outcomes) = <<>>
       /\ pc' \in {"finalized", "committed"} => byzantine_validators' = <<>>]_vars

\* a second block is finalized without evidence and without a slash
EvidenceDrainedWitness ==
    /\ pc = "finalized" /\ slash_run.made
    /\ storage.block.height = 2
    /\ RunEvidence = <<>> /\ SlashesOf(RunOutcomes) = <<>>
    /\ byzantine_validators = <<>>

\* C14: when the storage reads succeed, every item of the list is looked at;
\* an item with a negative height, a height without epoch, the fault type
\* Unknown or an unrecognized one, no validator or an unknown validator is
\* dropped without a slash, and an eligible item after a dropped one is slashed
DefectiveEvidenceSkipped ==
    slash_run.made /\ ReadsSucceed =>
        /\ Len(RunOutcomes) = Len(RunEvidence)
        /\ \A i \in 1..Len(RunOutcomes) :
            /\ Defective(RunEvidence[i]) =>
                    RunOutcomes[i].slash = None /\ ~RunOutcomes[i].panic
            /\ i > 1 /\ Defective(RunEvidence[i - 1])
                    /\ PassesDiscardChecks(RunEvidence[i])
                => RunOutcomes[i].slash # None

\* an item without validator is dropped and the valid item after it slashed
DefectiveEvidenceWitness ==
    /\ slash_run.made /\ pc = "finalized"
    /\ Len(RunEvidence) = 2
    /\ RunEvidence[1].validator = None
    /\ RunOutcomes[1].slash = None
    /\ RunOutcomes[2].result = "Slashing"

FinalizationNeverAborts == pc # "panicked"

UpdatedShell == oracle_update.self
DecidedCommand == CHOOSE c \in oracle_update.command : TRUE
\* a validator with the channels of an oracle
HasOracleChannel(m) == m.tag = "Validator" /\ m.eth_oracle # None
\* the commands waiting in the control channel of a mode with an oracle
ControlQueue(m) == (CHOOSE o \in m.eth_oracle : TRUE).control_sender.queue
ControlClosed(m) == (CHOOSE o \in m.eth_oracle : TRUE).control_sender.closed
ControlFull(m) ==
    LET c == (CHOOSE o \in m.eth_oracle : TRUE).control_sender
    IN  Len(c.queue) >= c.capacity
\* the bridge is present and enabled in a store that holds its configuration
BridgeEnabledIn(store) ==
    /\ store.eth_bridge_status = Some("Enabled")
    /\ store.eth_bridge_config # None
\* a Commit step
CommitStep == pc = "finalized" /\ pc' = "committed"

\* C18 as stated: at startup and on every Commit, a validator with an oracle
\* channel whose committed storage holds an enabled bridge pushes an
\* UpdateConfig command to the oracle (or panics on a full or closed channel)
PushedAtStartupAndEveryCommit ==
    /\ [](HasOracleChannel(UpdatedShell.mode)
            /\ BridgeEnabledIn(UpdatedShell.storage)
          => oracle_update.command # None)
    /\ [][CommitStep /\ HasOracleChannel(mode) /\ BridgeEnabledIn(storage')
          => \/ Len(ControlQueue(mode')) = Len(ControlQueue(mode)) + 1
             \/ pc' = "panicked"]_vars

\* C18 as the code has it: at startup a validator with an oracle channel
\* sends UpdateConfig exactly when storage holds an enabled bridge and its
\* configuration, the command being queued on the control channel unless the
\* call panics; a Commit leaves the control channel as it is, whatever the
\* committed storage holds
PushedAtStartupOnly ==
    /\ [](IF HasOracleChannel(UpdatedShell.mode)
             /\ BridgeEnabledIn(UpdatedShell.storage)
          THEN oracle_update.panic = None =>
                    /\ oracle_update.command # None
                    /\ ControlQueue(oracle_update.after) =
                            Append(ControlQueue(UpdatedShell.mode),
                                   UpdateConfig(DecidedCommand))
          ELSE /\ oracle_update.command = None
               /\ oracle_update.after = UpdatedShell.mode)
    /\ [][CommitStep => mode' = mode]_vars

\* a block that enables the bridge has been committed by a validator whose
\* oracle is running and was sent no command at startup: the control
\* channel is still empty
PushedAtStartupOnlyWitness ==
    /\ pc = "committed"
    /\ storage.last_block.height = 1
    /\ HasOracleChannel(mode)
    /\ UpdatedShell.storage.eth_bridge_status = Some("Disabled")
    /\ BridgeEnabledIn(storage)
    /\ ~ControlClosed(mode)
    /\ ControlQueue(mode) = <<>>

\* C19: the start_block of the UpdateConfig update_eth_oracle decides to send
\* is storage.ethereum_height when one is recorded, and the start height
\* configured in storage only when none is
StartBlockPrefersOracleHeight ==
    oracle_update.command # None =>
        Some(DecidedCommand.start_block) =
            IF UpdatedShell.storage.ethereum_height # None
            THEN UpdatedShell.storage.ethereum_height
            ELSE UpdatedShell.storage.eth_start_height

\* a command sent from a storage that holds both heights, and they differ
StartBlockWitness ==
    /\ oracle_update.command # None
    /\ UpdatedShell.storage.ethereum_height = Some(2)
    /\ UpdatedShell.storage.eth_start_height = Some(1)
    /\ DecidedCommand.start_block = 2

\* C20: when update_eth_oracle decides to send UpdateConfig it tries the send
\* once; on a full or closed control channel the process panics in the call,
\* and otherwise the command is queued: it is never dropped
ConfigNeverDropped ==
    oracle_update.command # None =>
        /\ oracle_update.tries = 1
        /\ IF ControlClosed(UpdatedShell.mode) \/ ControlFull(UpdatedShell.mode)
           THEN /\ oracle_update.panic # None
                /\ pc = "panicked"
                /\ oracle_update.after = UpdatedShell.mode
           ELSE /\ oracle_update.panic = None
                /\ ControlQueue(oracle_update.after) =
                        Append(ControlQueue(UpdatedShell.mode),
                               UpdateConfig(DecidedCommand))

\* the shell decided to send on a full channel and panicked
ConfigNeverDroppedWitness ==
    /\ oracle_update.command # None
    /\ ControlFull(UpdatedShell.mode)
    /\ ~ControlClosed(UpdatedShell.mode)
    /\ pc = "panicked"

\* C21: called on a shell that is no validator or has no oracle channel, or
\* on a storage without the bridge's active key (an empty storage, before
\* InitChain), with a disabled bridge or without the bridge configuration,
\* update_eth_oracle sends no command, does not panic and leaves the shell's
\* mode, with its channels, as it was
SafeOnEmptyStorage ==
    (\/ ~HasOracleChannel(UpdatedShell.mode)
     \/ UpdatedShell.storage.eth_bridge_status = None
     \/ UpdatedShell.storage.eth_bridge_status = Some("Disabled")
     \/ UpdatedShell.storage.eth_bridge_config = None)
    => /\ oracle_update.command = None
       /\ oracle_update.tries = 0
       /\ oracle_update.panic = None
       /\ oracle_update.after = UpdatedShell.mode
       /\ pc # "panicked"

\* a validator whose oracle is gone started on an empty storage, and went on
\* to commit a block
SafeOnEmptyStorageWitness ==
    /\ HasOracleChannel(UpdatedShell.mode)
    /\ ControlClosed(UpdatedShell.mode)
    /\ UpdatedShell.storage.eth_bridge_status = None
    /\ UpdatedShell.storage.eth_bridge_config = None
    /\ UpdatedShell.storage.ethereum_height = None
    /\ storage.last_block.height = 1

(***************************************************************************)
(* Properties of mempool_validate on vote extension transactions           *)
(***************************************************************************)
\* the request is a protocol transaction of the given kind, and its vote
\* extension
IsProtocol(kind) ==
    Decodes /\ Hdr.tx_type.tag = "Protocol" /\ Hdr.tx_type.protocol = Some(kind)
Ext == CHOOSE e \in Bytes.vext : TRUE
\* the extension is signed by a bonded validator with the given key of it
SignedByBonded(key) ==
    Ext.validator_addr = "validator_address" /\ Ext.sig = key

\* C27: the response carries the priority i64::MAX exactly when the request
\* is a validator set update vote extension that is accepted; every other
\* response carries the default priority 0
PriorityOnlyForValsetUpdates ==
    call.made =>
        IF PassesChecks /\ IsProtocol("ValSetUpdateVext") /\ Code = Ok
        THEN call.response.priority = I64Max
        ELSE call.response.priority = DefaultPriority

\* an accepted validator set update
PriorityWitness ==
    /\ call.made
    /\ IsProtocol("ValSetUpdateVext")
    /\ Code = Ok
    /\ call.response.priority = I64Max
    /\ storage.last_epoch = 1

ResponseCode == CHOOSE code \in FromU32(Code) : TRUE
\* the numbers and the decimal texts of the result codes
CodeTable ==
    <<<<"Ok", 0, <<"0">> >>,
      <<"InvalidDecryptedChainId", 1, <<"1">> >>,
      <<"ExpiredDecryptedTx", 2, <<"2">> >>,
      <<"WasmRuntimeError", 3, <<"3">> >>,
      <<"InvalidTx", 4, <<"4">> >>,
      <<"InvalidSig", 5, <<"5">> >>,
      <<"InvalidOrder", 6, <<"6">> >>,
      <<"ExtraTxs", 7, <<"7">> >>,
      <<"Undecryptable", 8, <<"8">> >>,
      <<"AllocationError", 9, <<"9">> >>,
      <<"ReplayTx", 10, <<"1", "0">> >>,
      <<"InvalidChainId", 11, <<"1", "1">> >>,
      <<"ExpiredTx", 12, <<"1", "2">> >>,
      <<"InvalidVoteExtension", 13, <<"1", "3">> >> >>

\* C23: every variant of ErrorCodes has the number of the table, 0 = Ok to
\* 13 = InvalidVoteExtension; its conversion to u32 and back gives the
\* variant again, and its conversion to String is the decimal text of its
\* number; the code of every response of mempool_validate is the number of
\* a variant
NumericCodes ==
    /\ ErrorCodes = {CodeTable[i][1] : i \in DOMAIN CodeTable}
    /\ \A i \in DOMAIN CodeTable :
        LET code == CodeTable[i][1] IN
        /\ ToU32(code) = CodeTable[i][2]
        /\ FromU32(ToU32(code)) = Some(code)
        /\ ErrorCodeToString(code) = CodeTable[i][3]
    /\ call.made =>
        /\ FromU32(Code) # None
        /\ ToU32(ResponseCode) = Code

\* a response with a code of two digits
NumericCodesWitness ==
    /\ call.made
    /\ FromU32(Code) = Some("ReplayTx")
    /\ ErrorCodeToString(ResponseCode) = <<"1", "0">>

\* C24: is_recoverable is true of the variants numbered 0 to 3 and of no
\* other, and every response of mempool_validate with another code than Ok
\* carries a code that is not recoverable
RecoverableCodes ==
    /\ \A code \in ErrorCodes : IsRecoverable(code) <=> ToU32(code) \in 0..3
    /\ call.made /\ Code # Ok => ~IsRecoverable(ResponseCode)

\* a rejection
RecoverableCodesWitness ==
    /\ call.made
    /\ FromU32(Code) = Some("InvalidTx")
    /\ ~IsRecoverable(ResponseCode)

(***************************************************************************)
(* Properties of EthereumReceiver                                          *)
(***************************************************************************)
\* the events of a sequence
EventsOf(events) == {events[i] : i \in DOMAIN events}
\* a sequence of events in the order of EthereumEvent, none twice
SortedNoDuplicate(events) ==
    \A i, j \in DOMAIN events : i < j => events[i] < events[j]

\* C25: after any fill_queue and remove_event calls the queue is in the
\* order of the events and holds none twice, get_events returns its events
\* in that order, and they are the events received so far less those
\* removed since they were last received
QueueSortedSet ==
    /\ SortedNoDuplicate(eth_queue)
    /\ SortedNoDuplicate(GetEvents(eth_queue))
    /\ EventsOf(GetEvents(eth_queue)) = EventsOf(eth_queue)
    /\ EventsOf(GetEvents(eth_queue)) = EventsOf(eth_received)
    /\ Len(GetEvents(eth_queue)) = Len(eth_received)

\* the greatest event arrived before the smallest
QueueSortedSetWitness ==
    /\ eth_received = <<3, 1>>
    /\ eth_queue = <<1, 3>>

\* C26: two receivers that received the same events, in whatever order,
\* number and split over fill_queue calls, return the same get_events
ArrivalOrderIndependent ==
    EventsOf(eth_received) = EventsOf(peer_receiver.received)
        => GetEvents(eth_queue) = GetEvents(peer_receiver.queue)

\* the same three events arrived in different orders
ArrivalOrderWitness ==
    /\ eth_received = <<3, 1, 2>>
    /\ peer_receiver.received = <<2, 3, 1>>
    /\ GetEvents(eth_queue) = <<1, 2, 3>>
    /\ GetEvents(peer_receiver.queue) = <<1, 2, 3>>

(***************************************************************************)
(* The UpdateConfig commands of consecutive startups                       *)
(***************************************************************************)
\* the startup recorded last sent its command
SentNow == oracle_update.command # None /\ oracle_update.panic = None
\* the command sent before that of the startup recorded last
PreviousSent == CHOOSE p \in oracle_update.previous : TRUE
\* the start block read from a recorded ethereum_height and a start height
StartBlockFrom(ethereum_height, eth_start_height) ==
    IF ethereum_height # None THEN ethereum_height ELSE eth_start_height

Wrapper == CHOOSE w \in Hdr.tx_type.wrapper : TRUE
\* the account that pays the fee of the request
Payer == IF Wrapper.pk = MaspTxKey THEN MaspAddress ELSE "user"
\* the fee configured for wrapper transactions
ConfiguredFee ==
    IF write_log.wrapper_tx_fees # None
    THEN CHOOSE f \in write_log.wrapper_tx_fees : TRUE
    ELSE IF storage.wrapper_tx_fees # None
    THEN CHOOSE f \in storage.wrapper_tx_fees : TRUE
    ELSE MinFeeWhole
\* the request carries a PoW solution the faucet of the chain accepts
ValidPow ==
    /\ Wrapper.pow_solution # None
    /\ storage.faucet_account # None
    /\ (IF Wrapper.pk = MaspTxKey THEN "masp_key_owner" ELSE "user")
            \notin storage.pow_used \cup write_log.pow_used

\* C31: a wrapper that passes the replay checks is rejected with InvalidTx
\* exactly when it has no valid PoW solution and the configured fee is
\* strictly greater than the balance of the fee payer, who is the MASP
\* address when the wrapper's key is the MASP key; a balance equal to the
\* fee is accepted
InsufficientFeeRejected ==
    (call.made /\ PassesChecks /\ IsWrapper
        /\ ~InnerRecorded /\ ~WrapperRecorded) =>
        /\ Code = InvalidTx <=>
                (~ValidPow /\ ConfiguredFee > storage.balance[Payer])
        /\ Code # InvalidTx => Code = Ok

\* a payer whose balance equals the fee is accepted without a PoW solution,
\* on a chain where the owner of the MASP key could not pay
InsufficientFeeWitness ==
    /\ call.made /\ PassesChecks /\ IsWrapper
    /\ ~InnerRecorded /\ ~WrapperRecorded
    /\ Wrapper.pk = MaspTxKey
    /\ ~ValidPow
    /\ ConfiguredFee = 1
    /\ storage.balance[MaspAddress] = 1
    /\ storage.balance["masp_key_owner"] = 0
    /\ Code = Ok

(***************************************************************************)
(* Properties of Shell::commit and Shell::last_state                       *)
(***************************************************************************)
\* a step that serves a Commit request
CommitServed == pc = "finalized" /\ pc' \in {"committed", "panicked"}
\* the messages a step hands to the broadcaster
NewlySent ==
    SubSeq(broadcast_sender'.sent, Len(broadcast_sender.sent) + 1,
           Len(broadcast_sender'.sent))
\* a message is a protocol transaction of this chain, signed with the
\* protocol key, whose vote extension is for the height given
SignedProtocolTxFor(msg, height) ==
    /\ msg.signer = "protocol_key"
    /\ msg.data.wf
    /\ msg.data.header.chain_id = ShellChainId
    /\ msg.data.header.tx_type.tag = "Protocol"
    /\ msg.data.sig = Some(HeaderHash(msg.data.header))
    /\ \E ext \in msg.data.vext : ext.block_height = height

\* C32: only Commit hands anything to the broadcaster and it does so only
\* in Validator mode: in Full and Seed mode nothing is sent, and in
\* Validator mode every message is a protocol transaction signed with the
\* protocol key, made of a vote extension for the block this Commit has
\* just committed
BroadcastByValidatorAfterCommit ==
    [][/\ Len(broadcast_sender'.sent) >= Len(broadcast_sender.sent)
       /\ SubSeq(broadcast_sender'.sent, 1, Len(broadcast_sender.sent))
            = broadcast_sender.sent
       /\ ~CommitServed => NewlySent = <<>>
       /\ (CommitServed /\ mode.tag # "Validator") => NewlySent = <<>>
       /\ (CommitServed /\ mode.tag = "Validator") =>
            /\ \A i \in DOMAIN NewlySent :
                    SignedProtocolTxFor(NewlySent[i], storage.block.height)
            /\ storage'.last_block.height = storage.block.height
            /\ (storage'.eth_bridge_status = Some("Enabled")
                    /\ ~broadcast_sender.closed) => Len(NewlySent) = 2
            /\ (NewlySent = <<>> /\ storage'.eth_bridge_status = Some("Enabled"))
                    => pc' = "panicked"]_vars

\* a validator has committed its second block and broadcast the protocol
\* transactions of both
BroadcastWitness ==
    /\ mode.tag = "Validator"
    /\ pc = "committed"
    /\ storage.last_block.height = 2
    /\ Len(broadcast_sender.sent) = 4
    /\ \E ext \in broadcast_sender.sent[4].data.vext : ext.block_height = 2

\* C33, as stated: after commit_block has failed, Commit returns no app hash
\* and broadcasts nothing: no Commit that logged a storage error has returned
StorageErrorTerminates == abci_response.error = None

\* the response of the last Commit and of the last Info
CommitResp == CHOOSE r \in abci_response.commit : TRUE
InfoResp == CHOOSE r \in abci_response.info : TRUE
\* a step that serves an Info request
InfoServed == abci_response.info = None /\ abci_response'.info # None

\* C34: Info reports the last committed state. Once a Commit has returned,
\* last_state returns the app hash that Commit returned and the height of
\* the block it committed; before any block is committed it returns an empty
\* app hash and height 0; an Info request changes no state
InfoReportsLastCommit ==
    /\ [][InfoServed =>
            LET info == CHOOSE r \in abci_response'.info : TRUE IN
            IF abci_response.commit # None
            THEN /\ info.last_block_app_hash = CommitResp.data
                 /\ info.last_block_height = storage.last_block.height
                 /\ info.last_block_height > 0
            ELSE info = [last_block_app_hash |-> <<>>,
                         last_block_height |-> 0]]_vars
    /\ [][(CommitServed /\ pc' = "committed") =>
            /\ abci_response'.commit # None
            /\ storage'.last_block.height = storage.block.height
            /\ LastState([storage |-> storage']) =
                    [last_block_app_hash |->
                        (CHOOSE r \in abci_response'.commit : TRUE).data,
                     last_block_height |-> storage.block.height]]_vars
    /\ [][InfoServed =>
            UNCHANGED <<storage, write_log, temp_wl, byzantine_validators,
                        tx_queue, eth_queue, mode, broadcast_sender, pc>>]_vars

\* an Info request is answered while the next block is in progress, with the
\* app hash and height of the committed block
InfoWitness ==
    /\ abci_response.info # None
    /\ abci_response.commit # None
    /\ pc = "finalized"
    /\ storage.block.height = 2
    /\ write_log.eth_bridge_status # None
    /\ InfoResp.last_block_height = 1
    /\ InfoResp.last_block_app_hash = CommitResp.data

(***************************************************************************)
(* Repeats within one temporary write log; mempool and proposal compared   *)
(***************************************************************************)
\* replay_protection_checks called on a transaction in the present state
RpCheck(b) ==
    ReplayProtectionChecks(Shell, CHOOSE t \in TxTryFrom(b) : TRUE, b, temp_wl)

\* C35: within one temporary write log, after replay_protection_checks has
\* succeeded on a wrapper both its hashes are in the write log, they stay
\* there for the rest of the stage, and a call on any transaction with one
\* of the hashes in the write log (the same transaction again included) is
\* refused with ReplayAttempt: the call that follows a success on a
\* transaction of the same inner or wrapper hash fails
OverlayRefusesRepeats ==
    /\ []((rp_call.made /\ rp_call.ok) => {RpInner, RpWrapper} \subseteq temp_wl)
    /\ [](pc = "proposal" =>
            \A b \in ReplayCheckedTxs :
                (InnerTxHash(b) \in temp_wl \/ WrapperTxHash(b) \in temp_wl)
                    => ~RpCheck(b).ok)
    /\ [][(pc = "proposal" /\ pc' = "proposal") =>
            /\ temp_wl \subseteq temp_wl'
            /\ (rp_call.made /\ rp_call.ok
                    /\ (InnerTxHash(rp_call'.tx_bytes) = RpInner
                        \/ WrapperTxHash(rp_call'.tx_bytes) = RpWrapper))
                => ~rp_call'.ok]_vars

\* the transaction accepted first in a proposal is refused when it comes
\* again, neither of its hashes being in the committed storage
OverlayRefusesRepeatsWitness ==
    /\ rp_call.made /\ ~rp_call.ok
    /\ rp_call.n = 2
    /\ {RpInner, RpWrapper} \subseteq rp_call.before
    /\ {RpInner, RpWrapper} \cap storage.hashes = {}

\* the same bytes went to mempool_validate and, on a temporary write log
\* without writes, to replay_protection_checks
BothCalled ==
    /\ call.made /\ rp_call.made
    /\ rp_call.before = {}
    /\ call.tx_bytes = rp_call.tx_bytes
    /\ Decodes /\ IsWrapper
\* the two calls agree: ReplayTx exactly with ReplayAttempt, and on the
\* same hash
Agree ==
    /\ Code = ReplayTx <=> ~rp_call.ok
    /\ Code = ReplayTx =>
            /\ call.response.log.hash = rp_call.err.hash
            /\ call.response.log.hash =
                    IF RpInner \in storage.hashes
                    THEN Some(RpInner) ELSE Some(RpWrapper)

\* C36, as stated: for a wrapper transaction and a temporary write log
\* without speculative writes, mempool_validate returns ReplayTx if and only
\* if replay_protection_checks returns ReplayAttempt, with the same hash
MempoolAgreesOnEveryWrapper == BothCalled => Agree

\* C36, amended: the two agree for a wrapper transaction that passes the
\* checks mempool_validate makes before its replay check (chain id,
\* expiration, signature); a wrapper that fails one of them gets the code of
\* that check from mempool_validate, replayed or not
MempoolAgreesWithProposal ==
    BothCalled =>
        /\ PassesChecks => Agree
        /\ ~PassesChecks => Code \notin {Ok, ReplayTx}

\* a wrapper whose wrapper hash alone is in the committed storage is refused
\* by both with that hash
MempoolAgreesWitness ==
    /\ BothCalled /\ PassesChecks
    /\ Code = ReplayTx /\ ~rp_call.ok
    /\ RpInner \notin storage.hashes
    /\ call.response.log.hash = Some(RpWrapper)

ReportedHeight ==
    IF mode.tag = "Validator" /\ mode.eth_oracle # None
    THEN OracleChannels.last_processed_block
    ELSE None

\* C38, as stated: at Commit, storage.ethereum_height becomes the height the
\* oracle of a validator reported last, and is left as it was when there is
\* no report or no oracle; the height is part of the state this Commit
\* persists, from which a restart right after it starts the oracle
CommitPersistsOracleHeight ==
    [][CommitStep =>
        /\ storage'.ethereum_height =
                IF ReportedHeight # None THEN ReportedHeight
                ELSE storage.ethereum_height
        /\ LoadLastState(storage').ethereum_height = storage'.ethereum_height]_vars


====
